---- MODULE Spec2Model ----
(***************************************************************************)
(* ink-hud rendering core: the pixel canvas and the Braille, Block and     *)
(* ASCII rasterizers (core/braille.ts, core/block.ts, core/ascii.ts,       *)
(* core/renderer.ts, core/types.ts).                                       *)
(*                                                                         *)
(* Data representation.                                                    *)
(*   Pixel      a record with field active and, optionally, field color    *)
(*              (types.ts: color?: string).                                *)
(*   Pixel[][]  a function from row index 0..h-1 to a function from column *)
(*              index 0..w-1 to Pixel; an index outside the domain reads   *)
(*              as JavaScript undefined.                                   *)
(*   string     a sequence of UTF-16 code units (glyphs are code points    *)
(*              below 65536, one unit each).                               *)
(*   string | undefined   a colour token, or the reserved token undefined  *)
(*              (colour tokens are hex or named colours, so the reserved   *)
(*              token is not one of them).                                 *)
(*   run        a record with field text and, optionally, color and        *)
(*              backgroundColor (types.ts: RenderedLine).                  *)
(*   object identity   the drawing primitives mutate pixel objects in      *)
(*              place, so a canvas under construction is kept as a grid of *)
(*              object references (cells) and the objects they refer to;   *)
(*              Pixel[][] above is what reading through the references     *)
(*              gives.                                                     *)
(***************************************************************************)
EXTENDS Integers, Sequences, FiniteSets, TLC

VARIABLES
    renderer,   \* the renderer type of the instance in use
    width,      \* pixel width handed to createCanvas and renderCanvas
    height,     \* pixel height handed to createCanvas and renderCanvas
    pixels,     \* the canvas as renderCanvas reads it: Pixel[][]
    lines,      \* the lines returned by the last renderCanvas
    pc,         \* position of the caller
    canvas,     \* the canvas as the drawing primitives hold it (references)
    call,       \* the last call made on the renderer and its arguments
    before,     \* pixels as they were before the last call
    hook        \* the state of a mounted useSmooth hook and its clock

vars == <<renderer, width, height, pixels, lines, pc, canvas, call, before, hook>>

\* no component with a useSmooth hook is mounted
NoHook == [mounted |-> FALSE]

\* ------------------------------------------------------------------------
\* JavaScript values
\* ------------------------------------------------------------------------

undefined == "undefined"

\* a truthy string: neither undefined nor the empty string
Truthy(s) == s # undefined /\ s # ""

\* Ceil rounding down
CeilFloor(a, b) == a \div b

\* Math.ceil(a / b) for integers a and b > 0
Ceil(a, b) == IF a % b = 0 THEN a \div b ELSE (a \div b) + 1

Min(a, b) == IF a < b THEN a ELSE b

Max(a, b) == IF a > b THEN a ELSE b

\* pixels[y]?.[x] is a pixel object
HasPixel(px, y, x) == y \in DOMAIN px /\ x \in DOMAIN px[y]

\* every pixel object reads as active
PixelActiveAny(px, y, x) == HasPixel(px, y, x)

\* pixels[y]?.[x]?.active ?? false
PixelActive(px, y, x) == IF HasPixel(px, y, x) THEN px[y][x].active ELSE FALSE

\* pixels[y]?.[x]?.color
PixelColor(px, y, x) ==
    IF HasPixel(px, y, x) /\ "color" \in DOMAIN px[y][x]
    THEN px[y][x].color
    ELSE undefined

\* counts.set(color, (counts.get(color) ?? 0) + 1) on a Map, kept as the
\* sequence of its entries <<key, value>> in insertion order
MapIncrement(counts, color) ==
    IF \E i \in 1..Len(counts) : counts[i][1] = color
    THEN [i \in 1..Len(counts) |->
            IF counts[i][1] = color THEN <<color, counts[i][2] + 1>> ELSE counts[i]]
    ELSE Append(counts, <<color, 1>>)

\* MaxEntryLoop with count >= maxCount: the last greatest count wins
RECURSIVE MaxEntryLoopLast(_, _, _, _)
MaxEntryLoopLast(counts, i, maxCount, dominantColor) ==
    IF i > Len(counts) THEN dominantColor
    ELSE IF counts[i][2] >= maxCount
         THEN MaxEntryLoopLast(counts, i + 1, counts[i][2], counts[i][1])
         ELSE MaxEntryLoopLast(counts, i + 1, maxCount, dominantColor)

\* the loop "for (const [color, count] of counts) if (count > maxCount) ..."
RECURSIVE MaxEntryLoop(_, _, _, _)
MaxEntryLoop(counts, i, maxCount, dominantColor) ==
    IF i > Len(counts) THEN dominantColor
    ELSE IF counts[i][2] > maxCount
         THEN MaxEntryLoop(counts, i + 1, counts[i][2], counts[i][1])
         ELSE MaxEntryLoop(counts, i + 1, maxCount, dominantColor)

\* the tail of every resolveColor: undefined for an empty map, else the first
\* entry in insertion order that holds the greatest count
DominantColor(counts) ==
    IF Len(counts) = 0 THEN undefined ELSE MaxEntryLoop(counts, 1, 0, undefined)

\* { text: buffer } with color / backgroundColor only when truthy
Segment(buffer, fg, bg) ==
    IF Truthy(fg) /\ Truthy(bg) THEN [text |-> buffer, color |-> fg, backgroundColor |-> bg]
    ELSE IF Truthy(fg) THEN [text |-> buffer, color |-> fg]
    ELSE IF Truthy(bg) THEN [text |-> buffer, backgroundColor |-> bg]
    ELSE [text |-> buffer]

\* ------------------------------------------------------------------------
\* BrailleRenderer
\* ------------------------------------------------------------------------

BRAILLE_BASE == 10240

DOT_WEIGHTS == <<1, 2, 4, 8, 16, 32, 64, 128>>

RECURSIVE BrailleCodeLoop(_, _, _)
BrailleCodeLoop(dots, i, code) ==
    IF ~(i < 8 /\ i < Len(DOT_WEIGHTS)) THEN code
    ELSE BrailleCodeLoop(dots, i + 1, IF dots[i] THEN code + DOT_WEIGHTS[i + 1] ELSE code)

\* String.fromCharCode(code): one UTF-16 code unit
createBrailleChar(dots) == BrailleCodeLoop(dots, 0, BRAILLE_BASE) % 65536

\* pixelToDotIndex numbering the dots row by row
pixelToDotIndexRowMajor(x, y) == y * 2 + x

pixelToDotIndex(x, y) ==
    IF x = 0 THEN (IF y = 3 THEN 6 ELSE y)
    ELSE (IF y = 3 THEN 7 ELSE y + 3)

\* the loop body of fillBrailleDots at step k = py * 2 + px
RECURSIVE FillDotsLoop(_, _, _, _, _, _, _)
FillDotsLoop(px, cx, cy, w, h, k, dots) ==
    IF k >= 8 THEN dots
    ELSE LET py == k \div 2
             pxl == k % 2
             pixelY == cy * 4 + py
             pixelX == cx * 2 + pxl
         IN  FillDotsLoop(px, cx, cy, w, h, k + 1,
                 IF pixelY < h /\ pixelX < w
                 THEN [dots EXCEPT ![pixelToDotIndex(pxl, py)] = PixelActive(px, pixelY, pixelX)]
                 ELSE dots)

fillBrailleDots(px, cx, cy, w, h) ==
    FillDotsLoop(px, cx, cy, w, h, 0, [i \in 0..7 |-> FALSE])

RECURSIVE BrailleCountLoop(_, _, _, _, _, _, _)
BrailleCountLoop(px, cx, cy, w, h, k, counts) ==
    IF k >= 8 THEN counts
    ELSE LET py == k \div 2
             pxl == k % 2
             pixelY == cy * 4 + py
             pixelX == cx * 2 + pxl
         IN  BrailleCountLoop(px, cx, cy, w, h, k + 1,
                 IF pixelY < h /\ pixelX < w
                    /\ PixelActive(px, pixelY, pixelX)
                    /\ Truthy(PixelColor(px, pixelY, pixelX))
                 THEN MapIncrement(counts, PixelColor(px, pixelY, pixelX))
                 ELSE counts)

BrailleResolveColor(px, cx, cy, w, h) ==
    DominantColor(BrailleCountLoop(px, cx, cy, w, h, 0, <<>>))

\* the inner loop of BrailleRenderer.renderCanvas over cx; st holds
\* lineSegments, buffer and bufferColor
RECURSIVE BrailleRowLoop(_, _, _, _, _, _, _)
BrailleRowLoop(px, cy, w, h, charWidth, cx, st) ==
    IF cx >= charWidth
    THEN IF st.buffer # <<>>
         THEN Append(st.segs, Segment(st.buffer, st.color, undefined))
         ELSE st.segs
    ELSE LET char == createBrailleChar(fillBrailleDots(px, cx, cy, w, h))
             color == BrailleResolveColor(px, cx, cy, w, h)
             flush == st.buffer # <<>> /\ st.color # color
         IN  BrailleRowLoop(px, cy, w, h, charWidth, cx + 1,
                 [segs |-> IF flush
                           THEN Append(st.segs, Segment(st.buffer, st.color, undefined))
                           ELSE st.segs,
                  buffer |-> (IF flush THEN <<>> ELSE st.buffer) \o <<char>>,
                  color |-> color])

BrailleRenderCanvas(px, w, h) ==
    LET charWidth == Ceil(w, 2)
        charHeight == Ceil(h, 4)
    IN  [cy \in 1..Max(charHeight, 0) |->
            BrailleRowLoop(px, cy - 1, w, h, charWidth, 0,
                [segs |-> <<>>, buffer |-> <<>>, color |-> undefined])]

\* ------------------------------------------------------------------------
\* BlockRenderer
\* ------------------------------------------------------------------------

SPACE == 32

\* BLOCK_LUT[leftHeight][rightHeight], rows L = 0..8, columns R = 0..8
BLOCK_LUT ==
    << <<32, 9623, 9623, 9623, 9623, 9623, 9623, 9616, 9616>>,
       <<9622, 9602, 9602, 9603, 9603, 9604, 9604, 9605, 9605>>,
       <<9622, 9602, 9602, 9603, 9603, 9604, 9604, 9605, 9605>>,
       <<9622, 9603, 9603, 9603, 9604, 9604, 9605, 9605, 9605>>,
       <<9622, 9603, 9603, 9604, 9604, 9605, 9605, 9606, 9606>>,
       <<9622, 9604, 9604, 9605, 9605, 9605, 9606, 9606, 9607>>,
       <<9622, 9604, 9604, 9605, 9605, 9606, 9606, 9607, 9607>>,
       <<9612, 9605, 9605, 9606, 9606, 9607, 9607, 9607, 9608>>,
       <<9612, 9605, 9605, 9606, 9606, 9607, 9607, 9608, 9608>> >>

\* LutChar looking up the complements of the two heights
LutCharComplement(l, r) ==
    IF l \in 0..8 /\ r \in 0..8 THEN BLOCK_LUT[8 - l + 1][8 - r + 1] ELSE SPACE

\* LutChar with the two indices swapped
LutCharSwapped(l, r) ==
    IF l \in 0..8 /\ r \in 0..8 THEN BLOCK_LUT[r + 1][l + 1] ELSE SPACE

\* BLOCK_LUT[l]?.[r] ?? ' '
LutChar(l, r) ==
    IF l \in 0..8 /\ r \in 0..8 THEN BLOCK_LUT[l + 1][r + 1] ELSE SPACE

RECURSIVE BlockCountLoop(_, _, _, _, _, _, _)
BlockCountLoop(px, startX, startY, w, h, k, counts) ==
    IF k >= 16 THEN counts
    ELSE LET py == k \div 2
             pxl == k % 2
             y == startY + py
             x == startX + pxl
         IN  BlockCountLoop(px, startX, startY, w, h, k + 1,
                 IF y >= h \/ x >= w THEN counts
                 ELSE IF PixelActive(px, y, x) /\ Truthy(PixelColor(px, y, x))
                      THEN MapIncrement(counts, PixelColor(px, y, x))
                      ELSE counts)

BlockResolveColor(px, startX, startY, w, h) ==
    DominantColor(BlockCountLoop(px, startX, startY, w, h, 0, <<>>))

\* the loop of analyzeColumn; acc holds count and sumY
RECURSIVE AnalyzeLoop(_, _, _, _, _, _)
AnalyzeLoop(px, colX, startY, h, py, acc) ==
    IF py >= 8 \/ startY + py >= h THEN acc
    ELSE AnalyzeLoop(px, colX, startY, h, py + 1,
             IF PixelActive(px, startY + py, colX)
             THEN [count |-> acc.count + 1, sumY |-> acc.sumY + py]
             ELSE acc)

\* { count, gravity }, the gravity kept as the fraction num / den
\* (sumY / count, or 3.5 = 7 / 2 for an empty column)
analyzeColumn(px, colX, startY, h) ==
    LET acc == AnalyzeLoop(px, colX, startY, h, 0, [count |-> 0, sumY |-> 0])
    IN  IF acc.count > 0
        THEN [count |-> acc.count, num |-> acc.sumY, den |-> acc.count]
        ELSE [count |-> 0, num |-> 7, den |-> 2]

\* IsTop with the boundary gravity 3.5 taken as top-heavy
IsTopOrCentred(col) == col.count > 0 /\ 2 * col.num <= 7 * col.den

\* col.count > 0 && col.gravity < 3.5
IsTop(col) == col.count > 0 /\ 2 * col.num < 7 * col.den

useInverse(left, right) ==
    \/ (IsTop(left) /\ (IsTop(right) \/ right.count = 0))
    \/ (IsTop(right) /\ (IsTop(left) \/ left.count = 0))

BLACK == "black"

\* the body of the cx loop up to the colour logic: the cell's glyph and its
\* foreground and background
BlockCell(px, cx, cy, w, h) ==
    LET startY == cy * 8
        leftX == cx * 2
        rightX == cx * 2 + 1
        left == analyzeColumn(px, leftX, startY, h)
        right == analyzeColumn(px, rightX, startY, h)
        isInverted == useInverse(left, right)
        pixelColor == BlockResolveColor(px, leftX, startY, w, h)
        char == IF isInverted
                THEN LutChar(8 - left.count, 8 - right.count)
                ELSE LutChar(Min(8, Max(0, left.count)), Min(8, Max(0, right.count)))
    IN  IF char # SPACE
        THEN IF isInverted
             THEN [char |-> char, fg |-> BLACK, bg |-> pixelColor]
             ELSE [char |-> char, fg |-> pixelColor, bg |-> undefined]
        ELSE [char |-> char, fg |-> undefined, bg |-> undefined]

\* colorKey made of the foreground alone
colorKeyForeground(fg, bg) == fg

\* `${fgColor}|${bgColor}`
colorKey(fg, bg) == fg \o "|" \o bg

\* the inner loop of BlockRenderer.renderCanvas over cx; st holds lineSegments,
\* buffer, bufferFg, bufferBg and bufferColorKey
RECURSIVE BlockRowLoop(_, _, _, _, _, _, _)
BlockRowLoop(px, cy, w, h, charWidth, cx, st) ==
    IF cx >= charWidth
    THEN IF st.buffer # <<>>
         THEN Append(st.segs, Segment(st.buffer, st.fg, st.bg))
         ELSE st.segs
    ELSE LET cell == BlockCell(px, cx, cy, w, h)
             key == colorKey(cell.fg, cell.bg)
             flush == st.buffer # <<>> /\ st.key # key
         IN  BlockRowLoop(px, cy, w, h, charWidth, cx + 1,
                 [segs |-> IF flush
                           THEN Append(st.segs, Segment(st.buffer, st.fg, st.bg))
                           ELSE st.segs,
                  buffer |-> (IF flush THEN <<>> ELSE st.buffer) \o <<cell.char>>,
                  fg |-> cell.fg,
                  bg |-> cell.bg,
                  key |-> key])

BlockRenderCanvas(px, w, h) ==
    LET charWidth == Ceil(w, 2)
        charHeight == Ceil(h, 8)
    IN  [cy \in 1..Max(charHeight, 0) |->
            BlockRowLoop(px, cy - 1, w, h, charWidth, 0,
                [segs |-> <<>>, buffer |-> <<>>, fg |-> undefined,
                 bg |-> undefined, key |-> undefined])]

\* ------------------------------------------------------------------------
\* AsciiRenderer
\* ------------------------------------------------------------------------

PLUS == 43

PIPE == 124

QUOTE == 39

DASH == 45

UNDERSCORE == 95

SLASH == 47

BACKSLASH == 92

DQUOTE == 34

DOT == 46

\* row = pixels[y]; if (!row) return false; return row[x]?.active ?? false
isPixelSet(px, x, y) == PixelActive(px, y, x)

\* the active offsets of the cell, in increasing order
getCellPositions(px, x, baseY) ==
    LET add(positions, offset) ==
            IF isPixelSet(px, x, baseY + offset) THEN Append(positions, offset) ELSE positions
    IN  add(add(add(<<>>, 0), 1), 2)

RECURSIVE SumSeq(_)
SumSeq(s) == IF s = <<>> THEN 0 ELSE Head(s) + SumSeq(Tail(s))

\* null, or the mean offset sum / length kept as the fraction num / den
getNeighborPosition(px, x, baseY) ==
    LET positions == getCellPositions(px, x, baseY)
    IN  IF Len(positions) = 0
        THEN [null |-> TRUE, num |-> 0, den |-> 1]
        ELSE [null |-> FALSE, num |-> SumSeq(positions), den |-> Len(positions)]

\* comparisons of an integer offset with a mean offset
MeanDiffers(pos, m) == m.num # pos * m.den

PosBelowMean(pos, m) == pos * m.den < m.num

PosAboveMean(pos, m) == pos * m.den > m.num

\* selectMultiPixelChar asking for both neighbours
selectMultiPixelCharBoth(hasAnyLeft, hasAnyRight) ==
    IF hasAnyLeft /\ hasAnyRight THEN PLUS ELSE PIPE

selectMultiPixelChar(hasAnyLeft, hasAnyRight) ==
    IF hasAnyLeft \/ hasAnyRight THEN PLUS ELSE PIPE

selectHorizontalChar(pos) ==
    IF pos = 0 THEN QUOTE
    ELSE IF pos = 1 THEN DASH
    ELSE UNDERSCORE

\* selectDiagonalChar with the left comparison used for the right neighbour too
selectDiagonalCharUnmirrored(pos, hasAnyLeft, hasAnyRight, leftPos, rightPos) ==
    IF hasAnyLeft /\ ~leftPos.null /\ MeanDiffers(pos, leftPos)
    THEN (IF PosBelowMean(pos, leftPos) THEN SLASH ELSE BACKSLASH)
    ELSE IF hasAnyRight /\ ~rightPos.null /\ MeanDiffers(pos, rightPos)
    THEN (IF PosBelowMean(pos, rightPos) THEN SLASH ELSE BACKSLASH)
    ELSE 0

\* a glyph, or 0 for null
selectDiagonalChar(pos, hasAnyLeft, hasAnyRight, leftPos, rightPos) ==
    IF hasAnyLeft /\ ~leftPos.null /\ MeanDiffers(pos, leftPos)
    THEN (IF PosBelowMean(pos, leftPos) THEN SLASH ELSE BACKSLASH)
    ELSE IF hasAnyRight /\ ~rightPos.null /\ MeanDiffers(pos, rightPos)
    THEN (IF PosAboveMean(pos, rightPos) THEN SLASH ELSE BACKSLASH)
    ELSE 0

\* selectIsolatedChar with the glyphs of offsets 1 and 2 exchanged
selectIsolatedCharExchanged(pos) ==
    IF pos = 0 THEN DQUOTE
    ELSE IF pos = 1 THEN DOT
    ELSE PLUS

selectIsolatedChar(pos) ==
    IF pos = 0 THEN DQUOTE
    ELSE IF pos = 1 THEN PLUS
    ELSE DOT

\* selectSinglePixelChar trying the diagonal rule before the horizontal one
selectSinglePixelCharDiagonalFirst(pos, hasSameHorizontal, hasAnyLeft, hasAnyRight, leftPos, rightPos) ==
    LET diagonal == selectDiagonalChar(pos, hasAnyLeft, hasAnyRight, leftPos, rightPos)
    IN  IF diagonal # 0 THEN diagonal
        ELSE IF hasSameHorizontal THEN selectHorizontalChar(pos)
        ELSE selectIsolatedChar(pos)

selectSinglePixelChar(pos, hasSameHorizontal, hasAnyLeft, hasAnyRight, leftPos, rightPos) ==
    IF hasSameHorizontal THEN selectHorizontalChar(pos)
    ELSE LET diagonal == selectDiagonalChar(pos, hasAnyLeft, hasAnyRight, leftPos, rightPos)
         IN  IF diagonal # 0 THEN diagonal ELSE selectIsolatedChar(pos)

selectAsciiChar(px, x, baseY) ==
    LET positions == getCellPositions(px, x, baseY)
        leftPos == getNeighborPosition(px, x - 1, baseY)
        rightPos == getNeighborPosition(px, x + 1, baseY)
        hasAnyLeft == ~leftPos.null
        hasAnyRight == ~rightPos.null
        pos == positions[1]
        hasLeftSame == isPixelSet(px, x - 1, baseY + pos)
        hasRightSame == isPixelSet(px, x + 1, baseY + pos)
    IN  IF Len(positions) = 0 THEN SPACE
        ELSE IF Len(positions) >= 2 THEN selectMultiPixelChar(hasAnyLeft, hasAnyRight)
        ELSE selectSinglePixelChar(pos, hasLeftSame \/ hasRightSame,
                                   hasAnyLeft, hasAnyRight, leftPos, rightPos)

RECURSIVE AsciiCountLoop(_, _, _, _, _)
AsciiCountLoop(px, x, baseY, offset, counts) ==
    IF offset >= 3 THEN counts
    ELSE LET y == baseY + offset
         IN  AsciiCountLoop(px, x, baseY, offset + 1,
                 IF y \notin DOMAIN px THEN counts
                 ELSE IF PixelActive(px, y, x) /\ Truthy(PixelColor(px, y, x))
                      THEN MapIncrement(counts, PixelColor(px, y, x))
                      ELSE counts)

AsciiResolveColor(px, x, baseY) ==
    DominantColor(AsciiCountLoop(px, x, baseY, 0, <<>>))

\* the inner loop of AsciiRenderer.renderCanvas over x; st holds lineSegments,
\* buffer and bufferColor
RECURSIVE AsciiRowLoop(_, _, _, _, _)
AsciiRowLoop(px, baseY, w, x, st) ==
    IF x >= w
    THEN IF st.buffer # <<>>
         THEN Append(st.segs, Segment(st.buffer, st.color, undefined))
         ELSE st.segs
    ELSE LET char == selectAsciiChar(px, x, baseY)
             color == IF char = SPACE THEN undefined ELSE AsciiResolveColor(px, x, baseY)
             flush == st.buffer # <<>> /\ st.color # color
         IN  AsciiRowLoop(px, baseY, w, x + 1,
                 [segs |-> IF flush
                           THEN Append(st.segs, Segment(st.buffer, st.color, undefined))
                           ELSE st.segs,
                  buffer |-> (IF flush THEN <<>> ELSE st.buffer) \o <<char>>,
                  color |-> color])

AsciiRenderCanvas(px, w, h) ==
    LET charHeight == Ceil(h, 3)
    IN  [cy \in 1..Max(charHeight, 0) |->
            AsciiRowLoop(px, (cy - 1) * 3, w, 0,
                [segs |-> <<>>, buffer |-> <<>>, color |-> undefined])]

\* ------------------------------------------------------------------------
\* Renderer (dynamic dispatch on the renderer type)
\* ------------------------------------------------------------------------

RendererTypes == {"braille", "block", "ascii"}

\* the resolutions with horizontal and vertical exchanged
ResolutionSwapped(r) ==
    CASE r = "braille" -> [horizontal |-> 4, vertical |-> 2]
      [] r = "block" -> [horizontal |-> 8, vertical |-> 2]
      [] r = "ascii" -> [horizontal |-> 3, vertical |-> 1]

\* getMetadata().resolution
Resolution(r) ==
    CASE r = "braille" -> [horizontal |-> 2, vertical |-> 4]
      [] r = "block" -> [horizontal |-> 2, vertical |-> 8]
      [] r = "ascii" -> [horizontal |-> 1, vertical |-> 3]

renderCanvas(r, px, w, h) ==
    CASE r = "braille" -> BrailleRenderCanvas(px, w, h)
      [] r = "block" -> BlockRenderCanvas(px, w, h)
      [] r = "ascii" -> AsciiRenderCanvas(px, w, h)

getResolution(r) == Resolution(r)

calculateCharDimensions(r, pixelWidth, pixelHeight) ==
    LET res == getResolution(r)
    IN  [cols |-> Ceil(pixelWidth, res.horizontal),
         rows |-> Ceil(pixelHeight, res.vertical)]

\* ------------------------------------------------------------------------
\* Renderer: the canvas and the drawing primitives (renderer.ts)
\* ------------------------------------------------------------------------

\* array.length of an array kept as a function over 0..n-1
ArrayLength(a) == Cardinality(DOMAIN a)

\* createCanvas whose rows are one shared array of pixel objects
createCanvasSharedRows(w, h) ==
    [cells |-> [y \in 0..(h - 1) |-> [x \in 0..(w - 1) |-> x]],
     objects |-> [id \in 0..(w - 1) |-> [active |-> FALSE]]]

\* createCanvas(width, height): Array.from({ length }) takes a negative
\* length as 0 and calls its callback once per index, so every position gets
\* the object literal of its own call (numbered in allocation order)
createCanvas(w, h) ==
    [cells |-> [y \in 0..(h - 1) |-> [x \in 0..(w - 1) |-> y * w + x]],
     objects |-> [id \in { y * w + x : y \in 0..(h - 1), x \in 0..(w - 1) } |->
                     [active |-> FALSE]]]

\* the Pixel[][] a reader of the canvas sees
ReadCanvas(c) ==
    [y \in DOMAIN c.cells |->
        [x \in DOMAIN c.cells[y] |-> c.objects[c.cells[y][x]]]]

\* Object.assign replacing the target by the source
ObjectAssignReplace(target, source) == source

\* Object.assign that flips the active flag where the source carries one
ObjectAssignToggle(target, source) ==
    [f \in DOMAIN target \cup DOMAIN source |->
        IF f \notin DOMAIN source THEN target[f]
        ELSE IF f = "active" /\ f \in DOMAIN target THEN ~target[f]
        ELSE source[f]]

\* Object.assign(target, source): the fields of source overwrite or extend
\* those of target
ObjectAssign(target, source) ==
    [f \in DOMAIN target \cup DOMAIN source |->
        IF f \in DOMAIN source THEN source[f] ELSE target[f]]

\* setPixel clamping the coordinates into the canvas
setPixelClamped(c, x, y, pixel) ==
    LET h == ArrayLength(c.cells)
        cy == Max(0, Min(y, h - 1))
    IN  IF h = 0 \/ ArrayLength(c.cells[cy]) = 0 THEN c
        ELSE LET cx == Max(0, Min(x, ArrayLength(c.cells[cy]) - 1))
             IN  [c EXCEPT !.objects[c.cells[cy][cx]] = ObjectAssign(@, pixel)]

\* setPixel storing into row[x] without the length test: a store past the end
\* of a JavaScript array extends it
setPixelGrow(c, x, y, pixel) ==
    IF y >= 0 /\ y < ArrayLength(c.cells) /\ x >= 0
    THEN IF x \in DOMAIN c.cells[y]
         THEN [c EXCEPT !.objects[c.cells[y][x]] = ObjectAssign(@, pixel)]
         ELSE LET id == CHOOSE n \in 0..Cardinality(DOMAIN c.objects) :
                            n \notin DOMAIN c.objects
              IN  [cells |-> [c.cells EXCEPT ![y] =
                                 [i \in 0..x |->
                                     IF i \in DOMAIN c.cells[y] THEN c.cells[y][i]
                                     ELSE id]],
                   objects |-> [o \in DOMAIN c.objects \cup {id} |->
                                   IF o # id THEN c.objects[o]
                                   ELSE ObjectAssign([active |-> FALSE], pixel)]]
    ELSE c

\* setPixel(canvas, x, y, pixel)
setPixel(c, x, y, pixel) ==
    IF /\ y >= 0
       /\ y < ArrayLength(c.cells)
       /\ y \in DOMAIN c.cells                  \* row = canvas[y] is an array
       /\ x >= 0
       /\ x < ArrayLength(c.cells[y])
       /\ x \in DOMAIN c.cells[y]               \* current = row[x] is an object
    THEN [c EXCEPT !.objects[c.cells[y][x]] = ObjectAssign(@, pixel)]
    ELSE c

\* setPixel at each point of a sequence of <<x, y>>, in order: st holds the
\* canvas so far and the index i of the next point
RECURSIVE SetPixelsFrom(_, _, _)
SetPixelsFrom(st, points, pixel) ==
    IF st.i > Len(points) THEN st.canvas
    ELSE SetPixelsFrom(
             [canvas |-> setPixel(st.canvas, points[st.i][1], points[st.i][2], pixel),
              i |-> st.i + 1],
             points, pixel)

SetPixels(c, points, pixel) == SetPixelsFrom([canvas |-> c, i |-> 1], points, pixel)

Abs(a) == IF a < 0 THEN -a ELSE a

\* the loop of drawLine leaving before it sets the end pixel
RECURSIVE DrawLineLoopOpenEnd(_, _, _)
DrawLineLoopOpenEnd(st, l, pixel) ==
    IF st.x = l.endX /\ st.y = l.endY
    THEN [st EXCEPT !.done = TRUE]
    ELSE LET e2 == 2 * st.err
             stepX == e2 > -l.dy
             stepY == e2 < l.dx
         IN  DrawLineLoopOpenEnd(
                 [canvas |-> setPixel(st.canvas, st.x, st.y, pixel),
                  x |-> IF stepX THEN st.x + l.sx ELSE st.x,
                  y |-> IF stepY THEN st.y + l.sy ELSE st.y,
                  err |-> (IF stepX THEN st.err - l.dy ELSE st.err)
                          + (IF stepY THEN l.dx ELSE 0),
                  visited |-> Append(st.visited, <<st.x, st.y>>),
                  done |-> FALSE], l, pixel)

\* the loop of drawLine moving along one axis per pass
RECURSIVE DrawLineLoopAxisSteps(_, _, _)
DrawLineLoopAxisSteps(st, l, pixel) ==
    LET c == setPixel(st.canvas, st.x, st.y, pixel)
        visited == Append(st.visited, <<st.x, st.y>>)
    IN  IF st.x = l.endX /\ st.y = l.endY
        THEN [st EXCEPT !.canvas = c, !.visited = visited, !.done = TRUE]
        ELSE IF Len(visited) > l.dx + l.dy + 1
        THEN [st EXCEPT !.canvas = c, !.visited = visited]
        ELSE LET stepX == st.x # l.endX /\ (2 * st.err > -l.dy \/ st.y = l.endY)
             IN  DrawLineLoopAxisSteps(
                     [canvas |-> c,
                      x |-> IF stepX THEN st.x + l.sx ELSE st.x,
                      y |-> IF stepX THEN st.y ELSE st.y + l.sy,
                      err |-> IF stepX THEN st.err - l.dy ELSE st.err + l.dx,
                      visited |-> visited,
                      done |-> FALSE], l, pixel)

\* drawLine: while (true) { setPixel; if at the end break; step }.
\* st holds the canvas, x, y, err and the positions visited so far.  Every
\* pass that does not break moves x or y by one away from the start, so a run
\* that has made more than dx + dy + 1 passes has gone beyond the end point and
\* never breaks: it is cut there with done = FALSE.
RECURSIVE DrawLineLoop(_, _, _)
DrawLineLoop(st, l, pixel) ==
    LET c == setPixel(st.canvas, st.x, st.y, pixel)
        visited == Append(st.visited, <<st.x, st.y>>)
    IN  IF st.x = l.endX /\ st.y = l.endY
        THEN [st EXCEPT !.canvas = c, !.visited = visited, !.done = TRUE]
        ELSE IF Len(visited) > l.dx + l.dy + 1
        THEN [st EXCEPT !.canvas = c, !.visited = visited]
        ELSE LET e2 == 2 * st.err
                 stepX == e2 > -l.dy
                 stepY == e2 < l.dx
             IN  DrawLineLoop(
                     [canvas |-> c,
                      x |-> IF stepX THEN st.x + l.sx ELSE st.x,
                      y |-> IF stepY THEN st.y + l.sy ELSE st.y,
                      err |-> (IF stepX THEN st.err - l.dy ELSE st.err)
                              + (IF stepY THEN l.dx ELSE 0),
                      visited |-> visited,
                      done |-> FALSE], l, pixel)

\* drawLine stepping towards larger x and y only
DrawLineRunForward(c, x0, y0, x1, y1, pixel) ==
    DrawLineLoop(
        [canvas |-> c, x |-> x0, y |-> y0, err |-> Abs(x1 - x0) - Abs(y1 - y0),
         visited |-> <<>>, done |-> FALSE],
        [dx |-> Abs(x1 - x0), dy |-> Abs(y1 - y0), sx |-> 1, sy |-> 1,
         endX |-> x1, endY |-> y1],
        pixel)

\* the run of drawLine(canvas, x0, y0, x1, y1, pixel) on integer arguments
\* (Math.round leaves them as they are)
DrawLineRun(c, x0, y0, x1, y1, pixel) ==
    LET dx == Abs(x1 - x0)
        dy == Abs(y1 - y0)
        sx == IF x0 < x1 THEN 1 ELSE -1
        sy == IF y0 < y1 THEN 1 ELSE -1
    IN  DrawLineLoop(
            [canvas |-> c, x |-> x0, y |-> y0, err |-> dx - dy,
             visited |-> <<>>, done |-> FALSE],
            [dx |-> dx, dy |-> dy, sx |-> sx, sy |-> sy, endX |-> x1, endY |-> y1],
            pixel)

drawLine(c, x0, y0, x1, y1, pixel) == DrawLineRun(c, x0, y0, x1, y1, pixel).canvas

\* -Math.round(-Math.sqrt(n)): the least m >= 0 with m >= sqrt(n) - 1/2, that
\* is with (2m + 1)^2 >= 4n
RECURSIVE RoundSqrtLoop(_, _)
RoundSqrtLoop(n, m) ==
    IF (2 * m + 1) * (2 * m + 1) >= 4 * n THEN m ELSE RoundSqrtLoop(n, m + 1)

\* the number of x values of for (x = -w; x <= w; x++) with w = Math.sqrt(n):
\* the k >= 0 with k <= 2w, that is with k^2 <= 4n
RECURSIVE SpanCountLoop(_, _)
SpanCountLoop(n, k) ==
    IF k * k > 4 * n THEN k ELSE SpanCountLoop(n, k + 1)

\* drawCircle, filled: the positions of one scanline y, in loop order:
\* Math.round(centerX - w + k) = centerX + k + Math.round(-w) for integer
\* centerX and k
CircleSpan(centerX, centerY, radius, y) ==
    LET n == radius * radius - y * y
        first == centerX - RoundSqrtLoop(n, 0)
    IN  [k \in 1..SpanCountLoop(n, 0) |-> <<first + k - 1, centerY + y>>]

RECURSIVE FilledCircleLoop(_, _, _, _, _, _)
FilledCircleLoop(c, centerX, centerY, radius, y, pixel) ==
    IF y > radius THEN c
    ELSE FilledCircleLoop(
             SetPixels(c, CircleSpan(centerX, centerY, radius, y), pixel),
             centerX, centerY, radius, y + 1, pixel)

\* drawCircle, unfilled: the eight setPixel calls of one pass
OctantPoints(centerX, centerY, x, y) ==
    << <<centerX + x, centerY + y>>, <<centerX - x, centerY + y>>,
       <<centerX + x, centerY - y>>, <<centerX - x, centerY - y>>,
       <<centerX + y, centerY + x>>, <<centerX - y, centerY + x>>,
       <<centerX + y, centerY - x>>, <<centerX - y, centerY - x>> >>

RECURSIVE MidpointLoop(_, _, _, _, _, _, _)
MidpointLoop(c, centerX, centerY, x, y, d, pixel) ==
    IF ~(x <= y) THEN c
    ELSE LET c1 == SetPixels(c, OctantPoints(centerX, centerY, x, y), pixel)
             x1 == x + 1
         IN  IF d < 0
             THEN MidpointLoop(c1, centerX, centerY, x1, y, d + 2 * x1 + 1, pixel)
             ELSE MidpointLoop(c1, centerX, centerY, x1, y - 1,
                               d + 2 * (x1 - (y - 1)) + 1, pixel)

\* drawCircle drawing a radius of 0 as a radius of 1
drawCircleMinRadius(c, centerX, centerY, radius, filled, pixel) ==
    LET r == IF radius = 0 THEN 1 ELSE radius
    IN  IF filled
        THEN FilledCircleLoop(c, centerX, centerY, r, -r, pixel)
        ELSE MidpointLoop(c, centerX, centerY, 0, r, 1 - r, pixel)

drawCircle(c, centerX, centerY, radius, filled, pixel) ==
    IF filled
    THEN FilledCircleLoop(c, centerX, centerY, radius, -radius, pixel)
    ELSE MidpointLoop(c, centerX, centerY, 0, radius, 1 - radius, pixel)

\* ------------------------------------------------------------------------
\* utils/geometry.ts
\* ------------------------------------------------------------------------

\* the points of one pass with the four points of the second octant pair left
\* at the first quadrant
SymmetryPointsOneSided(centerX, centerY, x, y) ==
    << <<centerX + x, centerY + y>>, <<centerX + x, centerY + y>>,
       <<centerX + x, centerY + y>>, <<centerX + x, centerY + y>>,
       <<centerX + y, centerY + x>>, <<centerX + y, centerY + x>>,
       <<centerX + y, centerY + x>>, <<centerX + y, centerY + x>> >>

\* midpointCircle: the eight points pushed in one pass
SymmetryPoints(centerX, centerY, x, y) ==
    << <<centerX + x, centerY + y>>, <<centerX - x, centerY + y>>,
       <<centerX + x, centerY - y>>, <<centerX - x, centerY - y>>,
       <<centerX + y, centerY + x>>, <<centerX - y, centerY + x>>,
       <<centerX + y, centerY - x>>, <<centerX - y, centerY - x>> >>

\* midpointCircle: while (x <= y) { points.push(...); x++; ... }
RECURSIVE MidpointCircleLoop(_, _, _, _, _, _)
MidpointCircleLoop(centerX, centerY, x, y, d, points) ==
    IF ~(x <= y) THEN points
    ELSE LET pushed == points \o SymmetryPoints(centerX, centerY, x, y)
             x1 == x + 1
         IN  IF d < 0
             THEN MidpointCircleLoop(centerX, centerY, x1, y, d + 2 * x1 + 1, pushed)
             ELSE MidpointCircleLoop(centerX, centerY, x1, y - 1,
                                     d + 2 * (x1 - (y - 1)) + 1, pushed)

midpointCircle(centerX, centerY, radius) ==
    MidpointCircleLoop(centerX, centerY, 0, radius, 1 - radius, <<>>)

\* for (i = from; i < from + count; i++): the values of i, in order
Range(from, count) == [i \in 1..count |-> from + i - 1]

\* the positions (xs[i], y) or (x, ys[i]) of one loop of drawRect
RowPoints(xs, y) == [i \in 1..Len(xs) |-> <<xs[i], y>>]

ColumnPoints(x, ys) == [i \in 1..Len(ys) |-> <<x, ys[i]>>]

RECURSIVE FilledRectLoop(_, _, _, _, _)
FilledRectLoop(c, x, ys, w, pixel) ==
    IF ys = <<>> THEN c
    ELSE FilledRectLoop(SetPixels(c, RowPoints(Range(x, w), Head(ys)), pixel),
                        x, Tail(ys), w, pixel)

\* drawRect(canvas, x, y, width, height, filled, pixel); the unfilled branch
\* has the loops "Bottom side", "Left side" and "Right side"
drawRect(c, x, y, w, h, filled, pixel) ==
    IF filled
    THEN FilledRectLoop(c, x, Range(y, h), w, pixel)
    ELSE LET bottom == SetPixels(c, RowPoints(Range(x, w), y + h - 1), pixel)
             left == SetPixels(bottom, ColumnPoints(x, Range(y, h)), pixel)
         IN  SetPixels(left, ColumnPoints(x + w - 1, Range(y, h)), pixel)

\* ------------------------------------------------------------------------
\* Inputs of renderCanvas
\* ------------------------------------------------------------------------

\* a pixel after setPixel calls: active or not, with or without a colour
Pixel(active, color) ==
    IF color = undefined THEN [active |-> active]
    ELSE [active |-> active, color |-> color]

\* a canvas whose pixels all carry the colour c (or none) and are active as
\* act says
UniformCanvas(act, c) ==
    [y \in DOMAIN act |-> [x \in DOMAIN act[y] |-> Pixel(act[y][x], c)]]

\* the five kinds of pixel a canvas can hold over two colours
PixelValues ==
    { Pixel(FALSE, undefined), Pixel(FALSE, "red"),
      Pixel(TRUE, undefined), Pixel(TRUE, "red"), Pixel(TRUE, "blue") }

\* bounds of the enumerated canvases
MaxW == 5

MaxH == 4

MaxArea == 4

AsciiMaxW == 4

AsciiMaxH == 6

AsciiMaxArea == 12

MaxBarW == 4

MaxBarH == 9

BarColors == {undefined, "red", "black"}

\* a pixel column of height h that is empty or holds one pixel of colour c at
\* its top or at its bottom (a one-pixel bar hanging or standing)
BarColumns(h) ==
    { [y \in 0..(h - 1) |-> Pixel(FALSE, undefined)] }
    \cup { [y \in 0..(h - 1) |-> IF y = 0 THEN Pixel(TRUE, c) ELSE Pixel(FALSE, undefined)]
           : c \in BarColors }
    \cup { [y \in 0..(h - 1) |-> IF y = h - 1 THEN Pixel(TRUE, c) ELSE Pixel(FALSE, undefined)]
           : c \in BarColors }

\* ------------------------------------------------------------------------
\* State machine: a canvas is handed to renderCanvas
\* ------------------------------------------------------------------------

\* a canvas of separate pixel objects that reads as px
CanvasOf(px) ==
    LET w == [y \in DOMAIN px |-> Cardinality(DOMAIN px[y])]
        wmax == IF DOMAIN px = {} THEN 0
                ELSE CHOOSE n \in { w[y] : y \in DOMAIN px } :
                         \A y \in DOMAIN px : w[y] <= n
    IN  [cells |-> [y \in DOMAIN px |-> [x \in DOMAIN px[y] |-> y * wmax + x]],
         objects |-> [id \in { y * wmax + x : y \in DOMAIN px, x \in 0..(wmax - 1) } |->
                         px[id \div wmax][id % wmax]]]

\* the canvas handed to renderCanvas is the one the charts have drawn
Drawn ==
    /\ canvas = CanvasOf(pixels)
    /\ call = [op |-> "draw"]
    /\ before = pixels
    /\ hook = NoHook

\* for every renderer, every canvas of at most MaxArea pixels and every
\* one-row canvas up to MaxW pixels wide
InitSmall ==
    /\ renderer \in RendererTypes
    /\ width \in 0..MaxW
    /\ height \in 0..MaxH
    /\ (width * height <= MaxArea \/ height <= 1)
    /\ pixels \in [0..(height - 1) -> [0..(width - 1) -> PixelValues]]
    /\ lines = <<>>
    /\ pc = "input"
    /\ Drawn

\* bar canvases of 8 or more rows for the Block renderer
InitBars ==
    /\ renderer = "block"
    /\ width \in 0..MaxBarW
    /\ height \in 8..MaxBarH
    /\ \E cols \in [0..(width - 1) -> BarColumns(height)] :
          pixels = [y \in 0..(height - 1) |-> [x \in 0..(width - 1) |-> cols[x][y]]]
    /\ lines = <<>>
    /\ pc = "input"
    /\ Drawn

Init == InitSmall \/ InitBars

\* every activity pattern of one 2x8 Block cell
InitBlockCell ==
    /\ renderer = "block"
    /\ width = 2
    /\ height = 8
    /\ \E act \in [0..7 -> [0..1 -> BOOLEAN]], c \in {undefined, "red"} :
          pixels = UniformCanvas(act, c)
    /\ lines = <<>>
    /\ pc = "input"
    /\ Drawn

\* every activity pattern of one 2x4 Braille cell
InitBrailleCell ==
    /\ renderer = "braille"
    /\ width = 2
    /\ height = 4
    /\ \E act \in [0..3 -> [0..1 -> BOOLEAN]], c \in {undefined, "red"} :
          pixels = UniformCanvas(act, c)
    /\ lines = <<>>
    /\ pc = "input"
    /\ Drawn

\* every activity pattern of an ASCII canvas of up to AsciiMaxW x AsciiMaxH
\* and at most AsciiMaxArea pixels
InitAscii ==
    /\ renderer = "ascii"
    /\ width \in 1..AsciiMaxW
    /\ height \in 1..AsciiMaxH
    /\ width * height <= AsciiMaxArea
    /\ \E act \in [0..(height - 1) -> [0..(width - 1) -> BOOLEAN]], c \in {undefined, "red"} :
          pixels = UniformCanvas(act, c)
    /\ lines = <<>>
    /\ pc = "input"
    /\ Drawn

\* renderCanvas that leaves the canvas cleared
RenderCanvasClearing ==
    /\ pc = "input"
    /\ lines' = renderCanvas(renderer, pixels, width, height)
    /\ pc' = "rendered"
    /\ canvas' = createCanvas(width, height)
    /\ pixels' = ReadCanvas(canvas')
    /\ UNCHANGED <<hook, renderer, width, height, call, before>>

\* lines = renderer.renderCanvas(canvas, pixelWidth, pixelHeight)
RenderCanvas ==
    /\ pc = "input"
    /\ lines' = renderCanvas(renderer, pixels, width, height)
    /\ pc' = "rendered"
    /\ UNCHANGED <<hook, renderer, width, height, pixels, canvas, call, before>>

Next == RenderCanvas

Spec == Init /\ [][Next]_vars

SpecBlockCell == InitBlockCell /\ [][Next]_vars

\* the column heights 1..8 of the lookup table
LutHeights == 1..8

\* a pixel column of 8 rows whose lowest n pixels are active (a bar standing
\* on the bottom of the cell)
StandingBar(n) == [y \in 0..7 |-> Pixel(y >= 8 - n, "red")]

\* two Block cells side by side, each of two standing bars: every pair of
\* pairs of column heights
InitLut ==
    /\ renderer = "block"
    /\ width = 4
    /\ height = 8
    /\ \E cols \in [0..3 -> LutHeights] :
          pixels = [y \in 0..7 |-> [x \in 0..3 |-> StandingBar(cols[x])[y]]]
    /\ lines = <<>>
    /\ pc = "input"
    /\ Drawn

SpecLut == InitLut /\ [][Next]_vars

\* bounds of the declared dimensions and of the pixel arrays that exceed them
OverMaxW == 2

OverMaxH == 2

OverMaxArea == 9

OverPixels == { Pixel(FALSE, undefined), Pixel(TRUE, undefined), Pixel(TRUE, "red") }

\* a pixel array that may have one more row and one more column than the
\* declared width and height
InitOversize ==
    /\ renderer \in RendererTypes
    /\ width \in 0..OverMaxW
    /\ height \in 0..OverMaxH
    /\ \E aw \in width..(width + 1), ah \in height..(height + 1) :
          /\ aw * ah <= OverMaxArea
          /\ pixels \in [0..(ah - 1) -> [0..(aw - 1) -> OverPixels]]
    /\ lines = <<>>
    /\ pc = "input"
    /\ Drawn

\* px with every pixel outside the rectangle 0..w-1 x 0..h-1 replaced by v
FillOutside(px, w, h, v) ==
    [y \in DOMAIN px |-> [x \in DOMAIN px[y] |->
        IF x < w /\ y < h THEN px[y][x] ELSE v]]

\* the rows 0..h-1 and columns 0..w-1 of px
Crop(px, w, h) ==
    [y \in DOMAIN px \cap 0..(h - 1) |-> [x \in DOMAIN px[y] \cap 0..(w - 1) |-> px[y][x]]]

\* renderCanvas(pixels, width, height) and renderCanvas(other, width, height)
\* for an array other that has the same pixels inside the declared rectangle
RenderBoth ==
    /\ pc = "input"
    /\ \E other \in {Crop(pixels, width, height)}
                    \cup { FillOutside(pixels, width, height, v) : v \in OverPixels } :
          call' = [op |-> "renderBoth", other |-> other,
                   otherLines |-> renderCanvas(renderer, other, width, height)]
    /\ lines' = renderCanvas(renderer, pixels, width, height)
    /\ pc' = "rendered"
    /\ UNCHANGED <<hook, renderer, width, height, pixels, canvas, before>>

NextOversize == RenderBoth

SpecOversize == InitOversize /\ [][NextOversize]_vars

\* ------------------------------------------------------------------------
\* Terminal detection and renderer selection (detect/)
\* ------------------------------------------------------------------------

\* strings of the environment are sequences of one-character strings; an
\* optional variable is the empty sequence or the one-element sequence of its
\* value

\* String.prototype.includes
Includes(str, sub) ==
    \E i \in 0..(Len(str) - Len(sub)) : SubSeq(str, i + 1, i + Len(sub)) = sub

\* the letters that toUpperCase and toLowerCase exchange
Letters ==
    [lower |-> <<"a", "b", "c", "d", "e", "f", "g", "h", "i", "j", "k", "l", "m", "n", "o", "p", "q", "r", "s", "t", "u", "v", "w", "x", "y", "z">>,
     upper |-> <<"A", "B", "C", "D", "E", "F", "G", "H", "I", "J", "K", "L", "M", "N", "O", "P", "Q", "R", "S", "T", "U", "V", "W", "X", "Y", "Z">>]

\* String.prototype.toUpperCase on ASCII text
toUpperCase(str) ==
    [i \in 1..Len(str) |->
        IF \E k \in 1..26 : Letters.lower[k] = str[i]
        THEN Letters.upper[CHOOSE k \in 1..26 : Letters.lower[k] = str[i]]
        ELSE str[i]]

\* String.prototype.toLowerCase on ASCII text
toLowerCase(str) ==
    [i \in 1..Len(str) |->
        IF \E k \in 1..26 : Letters.upper[k] = str[i]
        THEN Letters.lower[CHOOSE k \in 1..26 : Letters.upper[k] = str[i]]
        ELSE str[i]]

\* this.envInfo.X || ''
OrEmpty(opt) == IF opt = <<>> THEN <<>> ELSE opt[1]

BRAILLE_SUPPORTED_TERMINALS ==
    { <<"i", "t", "e", "r", "m">>,
      <<"w", "a", "r", "p">>,
      <<"a", "l", "a", "c", "r", "i", "t", "t", "y">>,
      <<"k", "i", "t", "t", "y">>,
      <<"w", "e", "z", "t", "e", "r", "m">>,
      <<"h", "y", "p", "e", "r">>,
      <<"t", "a", "b", "b", "y">>,
      <<"r", "i", "o">> }

checkUtf8Support(envInfo) ==
    LET lang == OrEmpty(envInfo.LANG)
    IN  Includes(toUpperCase(lang), <<"U", "T", "F", "-", "8">>) \/ Includes(toUpperCase(lang), <<"U", "T", "F", "8">>)

checkUnicodeSupport(envInfo) == checkUtf8Support(envInfo)

checkBrailleSupport(envInfo) ==
    LET termProgram == toLowerCase(OrEmpty(envInfo.TERM_PROGRAM))
    IN  \E supportedTerm \in BRAILLE_SUPPORTED_TERMINALS : Includes(termProgram, supportedTerm)

checkBlockElementsSupport(envInfo) == checkUnicodeSupport(envInfo)

checkColorSupport(envInfo) ==
    LET term == OrEmpty(envInfo.TERM)
        colorterm == OrEmpty(envInfo.COLORTERM)
    IN  \/ Includes(term, <<"c", "o", "l", "o", "r">>) \/ Includes(term, <<"2", "5", "6", "c", "o", "l", "o", "r">>)
        \/ Len(colorterm) > 0

checkTrueColorSupport(envInfo) ==
    LET colorterm == OrEmpty(envInfo.COLORTERM)
    IN  toLowerCase(colorterm) = <<"t", "r", "u", "e", "c", "o", "l", "o", "r">> \/ colorterm = <<"2", "4", "b", "i", "t">>

calculateScore(envInfo) ==
    Min((IF checkUtf8Support(envInfo) THEN 20 ELSE 0)
        + (IF checkUnicodeSupport(envInfo) THEN 10 ELSE 0)
        + (IF checkBrailleSupport(envInfo) THEN 30 ELSE 0)
        + (IF checkBlockElementsSupport(envInfo) THEN 10 ELSE 0)
        + (IF checkColorSupport(envInfo) THEN 15 ELSE 0)
        + (IF checkTrueColorSupport(envInfo) THEN 15 ELSE 0), 100)

detect(envInfo) ==
    [supportsUtf8 |-> checkUtf8Support(envInfo),
     supportsUnicode |-> checkUnicodeSupport(envInfo),
     supportsBraille |-> checkBrailleSupport(envInfo),
     supportsBlockElements |-> checkBlockElementsSupport(envInfo),
     supportsColor |-> checkColorSupport(envInfo),
     supportsTrueColor |-> checkTrueColorSupport(envInfo),
     score |-> calculateScore(envInfo)]

\* the requirements of getMetadata() of the three renderers
getMetadata(type) ==
    CASE type = "braille" ->
            [name |-> "braille", requiresUtf8 |-> TRUE, requiresUnicode |-> TRUE, minScore |-> 80]
      [] type = "block" ->
            [name |-> "block", requiresUtf8 |-> TRUE, requiresUnicode |-> TRUE, minScore |-> 30]
      [] type = "ascii" ->
            [name |-> "ascii", requiresUtf8 |-> FALSE, requiresUnicode |-> FALSE, minScore |-> 0]

\* isRendererSupported without the test of the score
isRendererSupportedAnyScore(type, capabilities) ==
    LET metadata == getMetadata(type)
    IN  /\ ~(metadata.requiresUtf8 /\ ~capabilities.supportsUtf8)
        /\ ~(metadata.requiresUnicode /\ ~capabilities.supportsUnicode)
        /\ ~(metadata.name = "braille" /\ ~capabilities.supportsBraille)
        /\ ~(metadata.name = "block" /\ ~capabilities.supportsBlockElements)

isRendererSupported(type, capabilities) ==
    LET metadata == getMetadata(type)
    IN  /\ ~(capabilities.score < metadata.minScore)
        /\ ~(metadata.requiresUtf8 /\ ~capabilities.supportsUtf8)
        /\ ~(metadata.requiresUnicode /\ ~capabilities.supportsUnicode)
        /\ ~(metadata.name = "braille" /\ ~capabilities.supportsBraille)
        /\ ~(metadata.name = "block" /\ ~capabilities.supportsBlockElements)

\* for (const rendererType of preferredChain) { if supported return }
RECURSIVE SelectLoop(_, _)
SelectLoop(chain, capabilities) ==
    IF chain = <<>> THEN "ascii"
    ELSE IF isRendererSupported(Head(chain), capabilities) THEN Head(chain)
    ELSE SelectLoop(Tail(chain), capabilities)

\* selectBest(preferredChain) of a selector whose detector was built from
\* envInfo; the renderer instance returned is known by its type
selectBest(envInfo, preferredChain) == SelectLoop(preferredChain, detect(envInfo))

\* ------------------------------------------------------------------------
\* State machine: a detector is built from an environment and a renderer is
\* selected
\* ------------------------------------------------------------------------

\* an optional environment variable over the values vals
Optional(vals) == {<<>>} \cup { <<v>> : v \in vals }

Environments ==
    [LANG : Optional({ <<>>,
      <<"C">>,
      <<"e", "n", "_", "U", "S", ".", "U", "T", "F", "-", "8">>,
      <<"d", "e", "_", "D", "E", ".", "u", "t", "f", "8">>,
      <<"e", "n", "_", "U", "S", ".", "I", "S", "O", "-", "8", "8", "5", "9", "-", "1">> }),
     TERM : Optional({ <<"x", "t", "e", "r", "m">>,
      <<"x", "t", "e", "r", "m", "-", "2", "5", "6", "c", "o", "l", "o", "r">>,
      <<"x", "t", "e", "r", "m", "-", "c", "o", "l", "o", "r">>,
      <<"d", "u", "m", "b">> }),
     COLORTERM : Optional({ <<>>,
      <<"t", "r", "u", "e", "c", "o", "l", "o", "r">>,
      <<"T", "r", "u", "e", "C", "o", "l", "o", "r">>,
      <<"2", "4", "b", "i", "t">>,
      <<"1">> }),
     TERM_PROGRAM : Optional({ <<"i", "T", "e", "r", "m", ".", "a", "p", "p">>,
      <<"W", "a", "r", "p", "T", "e", "r", "m", "i", "n", "a", "l">>,
      <<"A", "p", "p", "l", "e", "_", "T", "e", "r", "m", "i", "n", "a", "l">>,
      <<"v", "s", "c", "o", "d", "e">>,
      <<"k", "i", "t", "t", "y">> })]

ChainMaxLen == 3

\* the preference chains of at most ChainMaxLen renderer types
Chains == UNION { [1..n -> RendererTypes] : n \in 0..ChainMaxLen }

InitSelect ==
    /\ renderer = undefined
    /\ width = 0
    /\ height = 0
    /\ pixels = <<>>
    /\ lines = <<>>
    /\ pc = "detector"
    /\ canvas = CanvasOf(<<>>)
    /\ \E env \in Environments : call = [op |-> "TerminalDetector", envInfo |-> env]
    /\ before = <<>>
    /\ hook = NoHook

SelectBest ==
    /\ pc = "detector"
    /\ \E preferredChain \in Chains :
          /\ renderer' = selectBest(call.envInfo, preferredChain)
          /\ call' = [op |-> "selectBest", envInfo |-> call.envInfo,
                      preferredChain |-> preferredChain,
                      capabilities |-> detect(call.envInfo)]
    /\ pc' = "selected"
    /\ UNCHANGED <<hook, width, height, pixels, lines, canvas, before>>

NextSelect == SelectBest

SpecSelect == InitSelect /\ [][NextSelect]_vars

\* ------------------------------------------------------------------------
\* useSmooth (hooks/useSmooth.ts)
\* ------------------------------------------------------------------------

\* numbers that are not integers are kept as fractions n / d in lowest terms
\* with d > 0
RECURSIVE GCD(_, _)
GCD(a, b) == IF b = 0 THEN a ELSE GCD(b, a % b)

Frac(n, d) ==
    LET g == GCD(IF n < 0 THEN -n ELSE n, d)
    IN  [n |-> n \div g, d |-> d \div g]

FracAdd(a, b) ==
    LET l == (a.d \div GCD(a.d, b.d)) * b.d
    IN  Frac(a.n * (l \div a.d) + b.n * (l \div b.d), l)

FracSub(a, b) == FracAdd(a, Frac(-b.n, b.d))

FracMul(a, b) == Frac(a.n * b.n, a.d * b.d)

FracLess(a, b) == FracSub(a, b).n < 0

\* t < 0.5 ? 2 * t * t : -1 + (4 - 2 * t) * t
easeInOutQuad(t) ==
    IF 2 * t.n < t.d
    THEN Frac(2 * t.n * t.n, t.d * t.d)
    ELSE Frac((4 * t.d - 2 * t.n) * t.n - t.d * t.d, t.d * t.d)

easeLinear(t) == t

\* easingFn(t) for the easing functions the module exports
Easing(easingFn, t) ==
    CASE easingFn = "easeInOutQuad" -> easeInOutQuad(t)
      [] easingFn = "easeLinear" -> easeLinear(t)

\* const frameInterval = 1000 / 30: on a clock of whole milliseconds a timer
\* set for 33.33 ms is due 34 ms after it was set
FrameInterval == 34

\* a due timer fires at most MaxLate ms late
MaxLate == 1

Durations == {FrameInterval, 2 * FrameInterval}

Targets == {-1, 1, 3}

Easings == {"easeInOutQuad", "easeLinear"}

\* the cleanup of the effect: clearTimeout(timerRef.current)
Cleanup(h) == [h EXCEPT !.timer = <<>>]

\* the body of useEffect, run after a render in which a dependency changed
Effect(h) ==
    IF h.targetValue = h.currentValue THEN h
    ELSE [h EXCEPT !.startValue = h.currentValue,
                   !.startTime = h.now,
                   !.timer = <<h.now + FrameInterval>>]

\* the callback animate of the timer, and the render that setCurrentValue
\* causes when the value has changed: the cleanup of the last effect and the
\* effect again (currentValue is one of its dependencies)
animate(h) ==
    LET elapsed == h.now - h.startTime
        progress == IF elapsed >= h.duration THEN Frac(1, 1) ELSE Frac(elapsed, h.duration)
        easedProgress == Easing(h.easingFn, progress)
        newValue == FracAdd(h.startValue,
                            FracMul(FracSub(h.targetValue, h.startValue), easedProgress))
        set == [h EXCEPT !.currentValue = newValue,
                         !.timer = IF FracLess(progress, Frac(1, 1))
                                   THEN <<h.now + FrameInterval>>
                                   ELSE <<>>,
                         !.frames = Append(h.frames, newValue)]
    IN  IF newValue = h.currentValue THEN set ELSE Effect(Cleanup(set))

\* a component is mounted with useSmooth(0, duration, easingFn): useState and
\* the refs take the target, the first effect returns at once
InitSmooth ==
    /\ renderer = undefined
    /\ width = 0
    /\ height = 0
    /\ pixels = <<>>
    /\ lines = <<>>
    /\ pc = "mounted"
    /\ canvas = CanvasOf(<<>>)
    /\ call = [op |-> "useSmooth"]
    /\ before = <<>>
    /\ \E duration \in Durations, easingFn \in Easings :
          hook = [mounted |-> TRUE, now |-> 0,
                  targetValue |-> Frac(0, 1), duration |-> duration, easingFn |-> easingFn,
                  currentValue |-> Frac(0, 1), startValue |-> Frac(0, 1),
                  startTime |-> <<>>, timer |-> <<>>, changedAt |-> 0, frames |-> <<>>]

\* the component renders with a new target: the effect runs
ChangeTarget ==
    /\ pc = "mounted"
    /\ \E targetValue \in Targets :
          hook' = Effect([hook EXCEPT !.targetValue = Frac(targetValue, 1),
                                      !.changedAt = hook.now])
    /\ pc' = "animating"
    /\ UNCHANGED <<renderer, width, height, pixels, lines, canvas, call, before>>

\* the time by which the last frame of an animation has been shown
SettleTime(h) == h.changedAt + h.duration + FrameInterval + MaxLate

\* a millisecond passes; a timer is not left waiting more than MaxLate ms
Tick ==
    /\ pc = "animating"
    /\ hook.now < SettleTime(hook)
    /\ hook.timer # <<>> => hook.now < hook.timer[1] + MaxLate
    /\ hook' = [hook EXCEPT !.now = hook.now + 1]
    /\ UNCHANGED <<renderer, width, height, pixels, lines, pc, canvas, call, before>>

\* the timer fires
Animate ==
    /\ pc = "animating"
    /\ hook.timer # <<>>
    /\ hook.now >= hook.timer[1]
    /\ hook' = animate(hook)
    /\ UNCHANGED <<renderer, width, height, pixels, lines, pc, canvas, call, before>>

NextSmooth == ChangeTarget \/ Tick \/ Animate

SpecSmooth == InitSmooth /\ [][NextSmooth]_vars

SpecBrailleCell == InitBrailleCell /\ [][Next]_vars

SpecAscii == InitAscii /\ [][Next]_vars

\* ------------------------------------------------------------------------
\* State machine: a chart creates a canvas and draws on it
\* ------------------------------------------------------------------------

\* bounds of the canvases drawn on
DrawMaxW == 2

DrawMaxH == 2

LineMaxW == 5

LineMaxH == 5

\* Partial<Pixel> arguments of setPixel
Patches == { [active |-> TRUE], [active |-> FALSE], [color |-> "red"] }

\* Partial<Pixel> arguments of the shapes: the default and a coloured one
ShapePatches == { [active |-> TRUE], [active |-> TRUE, color |-> "red"] }

\* integer coordinates: every column or row of the canvas and one beyond each
\* edge
Xs == (-1)..Max(width, 0)

Ys == (-1)..Max(height, 0)

\* canvas = renderer.createCanvas(w, h)
Created(w, h) ==
    /\ width = w
    /\ height = h
    /\ canvas = createCanvas(w, h)
    /\ pixels = ReadCanvas(canvas)
    /\ lines = <<>>
    /\ call = [op |-> "createCanvas"]
    /\ before = pixels
    /\ hook = NoHook

\* a caller that sets one pixel of a new canvas (position "created") and then
\* makes one more call of any kind (position "marked")
InitDraw ==
    /\ renderer = "braille"
    /\ \E w \in (-1)..DrawMaxW, h \in (-1)..DrawMaxH : Created(w, h)
    /\ pc = "created"

\* a caller that draws one line on a new canvas (position "stroke")
InitLine ==
    /\ renderer = "braille"
    /\ \E w \in 1..LineMaxW, h \in 1..LineMaxH : Created(w, h)
    /\ pc = "stroke"

\* a drawing call recorded as rec ends: it has returned with the canvas as c,
\* or (returned = FALSE) it is still looping
CallEnds(c, rec, returned) ==
    /\ canvas' = c
    /\ pixels' = ReadCanvas(c)
    /\ before' = pixels
    /\ call' = rec
    /\ pc' = IF ~returned THEN "looping"
             ELSE IF pc = "created" THEN "marked" ELSE "drawn"
    /\ UNCHANGED <<hook, renderer, width, height, lines>>

\* renderer.setPixel(canvas, x, y, pixel)
SetPixel ==
    /\ pc \in {"created", "marked"}
    /\ \E x \in Xs, y \in Ys, pixel \in Patches :
        CallEnds(setPixel(canvas, x, y, pixel),
                 [op |-> "setPixel", x |-> x, y |-> y, pixel |-> pixel], TRUE)

\* renderer.drawLine(canvas, x0, y0, x1, y1, pixel)
DrawLine ==
    /\ pc \in {"marked", "stroke"}
    /\ \E x0 \in Xs, y0 \in Ys, x1 \in Xs, y1 \in Ys, pixel \in ShapePatches :
        LET run == DrawLineRun(canvas, x0, y0, x1, y1, pixel)
        IN  CallEnds(run.canvas,
                     [op |-> "drawLine", x0 |-> x0, y0 |-> y0, x1 |-> x1, y1 |-> y1,
                      pixel |-> pixel, visited |-> run.visited],
                     run.done)

\* renderer.drawCircle(canvas, centerX, centerY, radius, filled, pixel)
DrawCircle ==
    /\ pc \in {"marked", "circle"}
    /\ \E centerX \in Xs, centerY \in Ys, radius \in (-1)..Max(Max(width, height), 0),
       filled \in BOOLEAN, pixel \in ShapePatches :
        CallEnds(drawCircle(canvas, centerX, centerY, radius, filled, pixel),
                 [op |-> "drawCircle", centerX |-> centerX, centerY |-> centerY,
                  radius |-> radius, filled |-> filled, pixel |-> pixel], TRUE)

\* renderer.drawRect(canvas, x, y, width, height, filled, pixel)
DrawRect ==
    /\ pc = "marked"
    /\ \E x \in Xs, y \in Ys, w \in (-1)..(Max(width, 0) + 1),
       h \in (-1)..(Max(height, 0) + 1), filled \in BOOLEAN, pixel \in ShapePatches :
        CallEnds(drawRect(canvas, x, y, w, h, filled, pixel),
                 [op |-> "drawRect", x |-> x, y |-> y, width |-> w, height |-> h,
                  filled |-> filled, pixel |-> pixel], TRUE)

NextDraw == SetPixel \/ DrawLine \/ DrawCircle \/ DrawRect

SpecDraw == InitDraw /\ [][NextDraw]_vars

NextLine == DrawLine

SpecLine == InitLine /\ [][NextLine]_vars

\* ------------------------------------------------------------------------
\* State machine: a caller computes the points of a circle, or draws a circle
\* on a new canvas
\* ------------------------------------------------------------------------

\* bounds of the canvases circles are drawn on and of the radii computed
CircleMaxW == 3

CircleMaxH == 3

CircleMaxRadius == 6

InitCircle ==
    /\ renderer = "braille"
    /\ \E w \in 0..CircleMaxW, h \in 0..CircleMaxH : Created(w, h)
    /\ pc = "circle"

\* points = midpointCircle(centerX, centerY, radius)
MidpointCircle ==
    /\ pc = "circle"
    /\ \E centerX \in Xs, centerY \in Ys, radius \in 0..CircleMaxRadius :
          call' = [op |-> "midpointCircle", centerX |-> centerX, centerY |-> centerY,
                   radius |-> radius,
                   points |-> midpointCircle(centerX, centerY, radius)]
    /\ pc' = "computed"
    /\ UNCHANGED <<hook, renderer, width, height, pixels, lines, canvas, before>>

NextCircle == MidpointCircle \/ DrawCircle

SpecCircle == InitCircle /\ [][NextCircle]_vars

\* ------------------------------------------------------------------------
\* State machine: a layout asks a renderer for character dimensions
\* ------------------------------------------------------------------------

\* bound of the pixel sizes asked about
MaxPixelSize == 17

InitDims ==
    /\ renderer \in RendererTypes
    /\ Created(0, 0)
    /\ pc = "layout"

\* dims = renderer.calculateCharDimensions(pixelWidth, pixelHeight)
CalculateCharDimensions ==
    /\ pc = "layout"
    /\ \E pixelWidth \in 0..MaxPixelSize, pixelHeight \in 0..MaxPixelSize :
          call' = [op |-> "calculateCharDimensions",
                   pixelWidth |-> pixelWidth, pixelHeight |-> pixelHeight,
                   dims |-> calculateCharDimensions(renderer, pixelWidth, pixelHeight)]
    /\ pc' = "measured"
    /\ UNCHANGED <<hook, renderer, width, height, pixels, lines, canvas, before>>

NextDims == CalculateCharDimensions

SpecDims == InitDims /\ [][NextDims]_vars

\* ------------------------------------------------------------------------
\* State machine: a canvas is rendered, another canvas is drawn and rendered
\* by the same renderer, and the first canvas is rendered again
\* ------------------------------------------------------------------------

\* bounds of the canvases rendered twice
AgainMaxW == 3

AgainMaxH == 9

AgainMaxArea == 6

\* every activity pattern of a canvas of at most AgainMaxArea pixels, and the
\* canvases up to AgainMaxW x AgainMaxH in which no pixel is active, the pixels
\* carrying a colour or none
InitAgain ==
    /\ renderer \in RendererTypes
    /\ width \in 0..AgainMaxW
    /\ height \in 0..AgainMaxH
    /\ \E c \in {undefined, "red"} :
          \/ /\ width * height <= AgainMaxArea
             /\ \E act \in [0..(height - 1) -> [0..(width - 1) -> BOOLEAN]] :
                   pixels = UniformCanvas(act, c)
          \/ pixels = UniformCanvas([y \in 0..(height - 1) |->
                                        [x \in 0..(width - 1) |-> FALSE]], c)
    /\ lines = <<>>
    /\ pc = "input"
    /\ Drawn

\* a line is drawn on another canvas of the same size and that canvas is
\* rendered by the same renderer instance
RenderOther ==
    /\ pc = "rendered"
    /\ \E x1 \in 0..Max(width - 1, 0), y1 \in 0..Max(height - 1, 0) :
          LET other == drawLine(createCanvas(width, height), 0, 0, x1, y1, [active |-> TRUE])
          IN  lines' = renderCanvas(renderer, ReadCanvas(other), width, height)
    /\ call' = [op |-> "renderCanvas", first |-> lines]
    /\ pc' = "interleaved"
    /\ UNCHANGED <<hook, renderer, width, height, pixels, canvas, before>>

\* the first canvas is rendered again, by the same instance or by a new one of
\* the same type (an instance holds no fields, so the renderer type is all
\* there is to it); call.first keeps what the first rendering returned
RenderAgain ==
    /\ pc \in {"rendered", "interleaved"}
    /\ lines' = renderCanvas(renderer, pixels, width, height)
    /\ call' = [op |-> "renderCanvas",
                first |-> IF pc = "rendered" THEN lines ELSE call.first,
                interleaved |-> pc = "interleaved"]
    /\ pc' = "rerendered"
    /\ UNCHANGED <<hook, renderer, width, height, pixels, canvas, before>>

NextAgain == RenderCanvas \/ RenderOther \/ RenderAgain

SpecAgain == InitAgain /\ [][NextAgain]_vars

\* ------------------------------------------------------------------------
\* Reading the canvas and the rendered lines (used by the properties)
\* ------------------------------------------------------------------------

\* pixel (x, y) lies on the canvas and is active
ActiveAt(x, y) ==
    x \in 0..(width - 1) /\ y \in 0..(height - 1) /\ pixels[y][x].active

\* the truthy colour of pixel (x, y) if it is active, else undefined
ActiveColorAt(x, y) ==
    IF ActiveAt(x, y) /\ "color" \in DOMAIN pixels[y][x] /\ pixels[y][x].color # ""
    THEN pixels[y][x].color
    ELSE undefined

CellW == Resolution(renderer).horizontal

CellH == Resolution(renderer).vertical

\* character columns and rows of the canvas
Cols == (width + CellW - 1) \div CellW

Rows == (height + CellH - 1) \div CellH

RunColor(run) == IF "color" \in DOMAIN run THEN run.color ELSE undefined

RunBackground(run) ==
    IF "backgroundColor" \in DOMAIN run THEN run.backgroundColor ELSE undefined

\* one record per character of a line: its glyph and the style of its run
RECURSIVE Chars(_)
Chars(line) ==
    IF line = <<>> THEN <<>>
    ELSE [i \in 1..Len(Head(line).text) |->
             [char |-> Head(line).text[i],
              color |-> RunColor(Head(line)),
              backgroundColor |-> RunBackground(Head(line))]]
         \o Chars(Tail(line))

\* the rendered character of cell (cx, cy)
Out(cx, cy) == Chars(lines[cy + 1])[cx + 1]

Rendered == pc = "rendered"

\* the k-th pixel (k = 0, 1, ...) of cell (cx, cy) scanning its rows top to
\* bottom and each row left to right
ScanX(cx, k) == cx * CellW + (k % CellW)

ScanY(cy, k) == cy * CellH + (k \div CellW)

ScanColor(cx, cy, k) == ActiveColorAt(ScanX(cx, k), ScanY(cy, k))

CellColors(cx, cy) ==
    { ScanColor(cx, cy, k) : k \in 0..(CellW * CellH - 1) } \ {undefined}

ColorCount(cx, cy, c) ==
    Cardinality({ k \in 0..(CellW * CellH - 1) : ScanColor(cx, cy, k) = c })

FirstSeen(cx, cy, c) ==
    CHOOSE k \in 0..(CellW * CellH - 1) :
        /\ ScanColor(cx, cy, k) = c
        /\ \A j \in 0..(k - 1) : ScanColor(cx, cy, j) # c

\* the colour with the highest count among the active coloured pixels of the
\* cell, the first one seen winning a tie; undefined when there is none
Dominant(cx, cy) ==
    IF CellColors(cx, cy) = {} THEN undefined
    ELSE CHOOSE c \in CellColors(cx, cy) :
            \A d \in CellColors(cx, cy) \ {c} :
                \/ ColorCount(cx, cy, d) < ColorCount(cx, cy, c)
                \/ /\ ColorCount(cx, cy, d) = ColorCount(cx, cy, c)
                   /\ FirstSeen(cx, cy, c) < FirstSeen(cx, cy, d)

\* Block cell (cx, cy): active pixels of its left (side 0) or right (side 1)
\* column, as row offsets 0..7
ColumnRows(cx, cy, side) ==
    { r \in 0..7 : ActiveAt(cx * 2 + side, cy * 8 + r) }

RECURSIVE SetSum(_)
SetSum(S) == IF S = {} THEN 0 ELSE LET m == CHOOSE m \in S : TRUE IN m + SetSum(S \ {m})

ColumnCount(cx, cy, side) == Cardinality(ColumnRows(cx, cy, side))

\* count > 0 and gravity (the mean row offset) < 3.5
TopHeavy(cx, cy, side) ==
    /\ ColumnCount(cx, cy, side) > 0
    /\ 2 * SetSum(ColumnRows(cx, cy, side)) < 7 * ColumnCount(cx, cy, side)

\* one column is top-heavy and the other is top-heavy or empty
Inverted(cx, cy) ==
    \E side \in {0, 1} :
        /\ TopHeavy(cx, cy, side)
        /\ (TopHeavy(cx, cy, 1 - side) \/ ColumnCount(cx, cy, 1 - side) = 0)

\* the character the Block rules give for cell (cx, cy)
BlockExpected(cx, cy) ==
    LET l == ColumnCount(cx, cy, 0)
        r == ColumnCount(cx, cy, 1)
    IN  IF Inverted(cx, cy)
        THEN [char |-> BLOCK_LUT[8 - l + 1][8 - r + 1],
              color |-> "black",
              backgroundColor |-> Dominant(cx, cy)]
        ELSE [char |-> BLOCK_LUT[l + 1][r + 1],
              color |-> Dominant(cx, cy),
              backgroundColor |-> undefined]

\* ------------------------------------------------------------------------
\* Properties
\* ------------------------------------------------------------------------

\* C1: Block renderer, for each of the 2^16 activity patterns of a 2x8 cell:
\* the cell is rendered inverted iff one column is top-heavy (count > 0 and
\* gravity < 3.5) and the other is top-heavy or empty; inverted gives the glyph
\* LUT[8-count(left)][8-count(right)] with foreground black and the dominant
\* colour as background, otherwise the glyph LUT[count(left)][count(right)]
\* with the dominant colour as foreground and no background.
C1_BlockCell ==
    (Rendered /\ renderer = "block") =>
        /\ Len(lines) = Rows
        /\ \A cy \in 0..(Rows - 1) :
              /\ Len(Chars(lines[cy + 1])) = Cols
              /\ \A cx \in 0..(Cols - 1) : Out(cx, cy) = BlockExpected(cx, cy)

\* a top-heavy left column beside an empty right column was rendered inverted
\* over the colour red
C1_Witness ==
    /\ Rendered /\ renderer = "block"
    /\ TopHeavy(0, 0, 0) /\ ColumnCount(0, 0, 1) = 0
    /\ Out(0, 0).color = "black" /\ Out(0, 0).backgroundColor = "red"

\* the canvas is one 2x8 cell whose columns are filled from row 7 upward to
\* the heights L and R
BottomAnchored(L, R) ==
    /\ width = 2 /\ height = 8
    /\ \A y \in 0..7 :
          /\ pixels[y][0].active = (y >= 8 - L)
          /\ pixels[y][1].active = (y >= 8 - R)

GlyphAt(L, R, g) == BottomAnchored(L, R) => Out(0, 0).char = g

LeftBits == <<0, 1, 2, 6>>

RightBits == <<3, 4, 5, 7>>

\* the dot bits of the active pixels of Braille cell (cx, cy)
CellBits(cx, cy) ==
    { LeftBits[y + 1] : y \in { r \in 0..3 : ActiveAt(cx * 2, cy * 4 + r) } }
    \cup { RightBits[y + 1] : y \in { r \in 0..3 : ActiveAt(cx * 2 + 1, cy * 4 + r) } }

RECURSIVE BitSum(_)
BitSum(S) == IF S = {} THEN 0 ELSE LET b == CHOOSE b \in S : TRUE IN 2^b + BitSum(S \ {b})

\* C3: Braille renderer: for every 2x4 activity pattern the character is
\* U+2800 + the sum of 2^bit over the active dots, the left column rows 0..3
\* being bits 0,1,2,6 and the right column rows 0..3 bits 3,4,5,7.
C3_BrailleCodePoint ==
    (Rendered /\ renderer = "braille") =>
        /\ Len(lines) = Rows
        /\ \A cy \in 0..(Rows - 1) :
              /\ Len(Chars(lines[cy + 1])) = Cols
              /\ \A cx \in 0..(Cols - 1) :
                    Out(cx, cy).char = 10240 + BitSum(CellBits(cx, cy))

\* a fully active left column beside an empty right column was rendered as
\* U+2847
C3_Witness ==
    /\ Rendered /\ renderer = "braille"
    /\ \A y \in 0..3 : ActiveAt(0, y) /\ ~ActiveAt(1, y)
    /\ Out(0, 0).char = 10311

\* the active offsets 0..2 of ASCII cell (x, cy)
Offsets(x, cy) == { o \in 0..2 : ActiveAt(x, cy * 3 + o) }

\* the cell with offsets S has active pixels whose mean offset is not pos
MeanDiffersFrom(pos, S) == S # {} /\ SetSum(S) # pos * Cardinality(S)

\* pos is above (smaller than) the mean offset of S
BelowMeanOf(pos, S) == pos * Cardinality(S) < SetSum(S)

\* a neighbour cell has an active pixel at the offset pos itself
SameOffsetNeighbour(x, cy, pos) ==
    ActiveAt(x - 1, cy * 3 + pos) \/ ActiveAt(x + 1, cy * 3 + pos)

\* cell (x, cy) has the one active offset pos, no neighbour pixel at that
\* offset, and a neighbour whose mean offset differs from pos
DiagonalCase(x, cy, pos) ==
    /\ Offsets(x, cy) = {pos}
    /\ ~SameOffsetNeighbour(x, cy, pos)
    /\ (MeanDiffersFrom(pos, Offsets(x - 1, cy)) \/ MeanDiffersFrom(pos, Offsets(x + 1, cy)))

\* C4 (as amended): in the diagonal case the left neighbour is consulted
\* first: if its mean offset differs from pos the glyph is '/' when pos is
\* less than that mean and '\' otherwise; else the right neighbour is used and
\* the comparison is mirrored: '/' when pos is greater than its mean offset
\* and '\' otherwise.
C4_DiagonalMirrored ==
    (Rendered /\ renderer = "ascii") =>
        \A cy \in 0..(Rows - 1), x \in 0..(Cols - 1), pos \in 0..2 :
            DiagonalCase(x, cy, pos) =>
                Out(x, cy).char =
                    IF MeanDiffersFrom(pos, Offsets(x - 1, cy))
                    THEN (IF BelowMeanOf(pos, Offsets(x - 1, cy)) THEN 47 ELSE 92)
                    ELSE (IF ~BelowMeanOf(pos, Offsets(x + 1, cy)) THEN 47 ELSE 92)

\* C4 (as claimed): the same comparison for whichever neighbour is used: '/'
\* when pos is less than the mean offset of that neighbour, '\' otherwise.
C4_DiagonalSameComparison ==
    (Rendered /\ renderer = "ascii") =>
        \A cy \in 0..(Rows - 1), x \in 0..(Cols - 1), pos \in 0..2 :
            DiagonalCase(x, cy, pos) =>
                Out(x, cy).char =
                    IF MeanDiffersFrom(pos, Offsets(x - 1, cy))
                    THEN (IF BelowMeanOf(pos, Offsets(x - 1, cy)) THEN 47 ELSE 92)
                    ELSE (IF BelowMeanOf(pos, Offsets(x + 1, cy)) THEN 47 ELSE 92)

\* the rising diagonal (0,2), (1,1), (2,0) was rendered as three '/': cell 0
\* by its right neighbour, cells 1 and 2 by their left neighbour
C4_Witness ==
    /\ Rendered /\ renderer = "ascii" /\ width = 3
    /\ Offsets(0, 0) = {2} /\ Offsets(1, 0) = {1} /\ Offsets(2, 0) = {0}
    /\ Out(0, 0).char = 47 /\ Out(1, 0).char = 47 /\ Out(2, 0).char = 47

\* C5: an ASCII cell with 2 or 3 active offsets is '+' if the left or the
\* right neighbour cell of its row band has an active pixel, '|' otherwise.
C5_MultiPixel ==
    (Rendered /\ renderer = "ascii") =>
        \A cy \in 0..(Rows - 1), x \in 0..(Cols - 1) :
            Cardinality(Offsets(x, cy)) >= 2 =>
                Out(x, cy).char =
                    IF Offsets(x - 1, cy) # {} \/ Offsets(x + 1, cy) # {} THEN 43 ELSE 124

\* in the second row band a two-pixel cell with an active right neighbour
\* only was rendered '+', above an isolated three-pixel cell rendered '|'
C5_Witness ==
    /\ Rendered /\ renderer = "ascii" /\ width = 2 /\ height >= 5
    /\ Cardinality(Offsets(0, 1)) = 2 /\ Offsets(1, 1) # {} /\ Out(0, 1).char = 43
    /\ Cardinality(Offsets(0, 0)) = 3 /\ Offsets(1, 0) = {} /\ Out(0, 0).char = 124

\* C6: an ASCII cell with the one active offset pos and a left or right
\* neighbour pixel at that same offset is the single quote for pos 0, '-' for
\* pos 1 and '_' for pos 2, whatever the neighbours' mean offsets are.
C6_HorizontalContinuation ==
    (Rendered /\ renderer = "ascii") =>
        \A cy \in 0..(Rows - 1), x \in 0..(Cols - 1), pos \in 0..2 :
            (Offsets(x, cy) = {pos} /\ SameOffsetNeighbour(x, cy, pos)) =>
                Out(x, cy).char = <<39, 45, 95>>[pos + 1]

\* a pixel at offset 1 whose left neighbour holds offsets 0 and 1 (mean 0.5,
\* so the diagonal rule would apply) was rendered '-'
C6_Witness ==
    /\ Rendered /\ renderer = "ascii"
    /\ Offsets(1, 0) = {1} /\ Offsets(0, 0) = {0, 1}
    /\ Out(1, 0).char = 45

\* C7: an ASCII cell with the one active offset pos, no neighbour pixel at
\* that offset and no neighbour whose mean offset differs from pos is '"' for
\* pos 0, '+' for pos 1 and '.' for pos 2; a cell with no active offset is a
\* space without colour, whatever the colours of its inactive pixels.
C7_IsolatedAndEmpty ==
    (Rendered /\ renderer = "ascii") =>
        \A cy \in 0..(Rows - 1), x \in 0..(Cols - 1) :
            /\ \A pos \in 0..2 :
                  ( /\ Offsets(x, cy) = {pos}
                    /\ ~SameOffsetNeighbour(x, cy, pos)
                    /\ ~MeanDiffersFrom(pos, Offsets(x - 1, cy))
                    /\ ~MeanDiffersFrom(pos, Offsets(x + 1, cy)) ) =>
                        Out(x, cy).char = <<34, 43, 46>>[pos + 1]
            /\ Offsets(x, cy) = {} =>
                  Out(x, cy) = [char |-> 32, color |-> undefined, backgroundColor |-> undefined]

\* a pixel at offset 1 whose left neighbour holds offsets 0 and 2 (mean 1)
\* was rendered '+' in red, beside an empty cell of red inactive pixels
\* rendered as a space without colour
C7_Witness ==
    /\ Rendered /\ renderer = "ascii" /\ width = 3 /\ height = 3
    /\ Offsets(0, 0) = {0, 2} /\ Offsets(1, 0) = {1} /\ Offsets(2, 0) = {}
    /\ Out(1, 0) = [char |-> 43, color |-> "red", backgroundColor |-> undefined]
    /\ "color" \in DOMAIN pixels[0][2]
    /\ Out(2, 0) = [char |-> 32, color |-> undefined, backgroundColor |-> undefined]

\* the glyph and style the cell rules give for cell (cx, cy) of the canvas
CellExpected(cx, cy) ==
    CASE renderer = "block" -> BlockExpected(cx, cy)
      [] renderer = "braille" ->
            [char |-> 10240 + BitSum(CellBits(cx, cy)),
             color |-> Dominant(cx, cy),
             backgroundColor |-> undefined]
      [] renderer = "ascii" ->
            [char |-> selectAsciiChar(pixels, cx, cy * 3),
             color |-> Dominant(cx, cy),
             backgroundColor |-> undefined]

Style(c) == <<c.color, c.backgroundColor>>

RunStyle(run) == <<RunColor(run), RunBackground(run)>>

\* the cells of row cy as the cell rules give them, left to right
RowExpected(cy) == [i \in 1..Cols |-> CellExpected(i - 1, cy)]

\* the adjacent pairs of a row of cells whose styles differ
StyleChanges(cells) ==
    { i \in 1..(Len(cells) - 1) : Style(cells[i]) # Style(cells[i + 1]) }

\* C8: for every renderer and row, the runs concatenated give exactly the
\* row's cells (glyph and style), no run is empty, two adjacent runs never
\* have the same style (foreground and background), and a non-empty row has
\* 1 + (number of adjacent cell pairs whose style differs) runs.
C8_RunsPartitionRow ==
    Rendered =>
        /\ Len(lines) = Rows
        /\ \A cy \in 0..(Rows - 1) :
              LET line == lines[cy + 1]
                  cells == RowExpected(cy)
              IN  /\ Chars(line) = cells
                  /\ \A i \in 1..Len(line) : Len(line[i].text) >= 1
                  /\ \A i \in 1..(Len(line) - 1) : RunStyle(line[i]) # RunStyle(line[i + 1])
                  /\ Len(line) = IF Cols = 0 THEN 0 ELSE 1 + Cardinality(StyleChanges(cells))

\* five ASCII cells, three red then two blue, were rendered as two runs
C8_Witness ==
    /\ Rendered /\ renderer = "ascii" /\ width = 5 /\ height = 1
    /\ \A x \in 0..2 : ActiveColorAt(x, 0) = "red"
    /\ \A x \in 3..4 : ActiveColorAt(x, 0) = "blue"
    /\ Len(lines[1]) = 2
    /\ Len(lines[1][1].text) = 3 /\ Len(lines[1][2].text) = 2

\* the canvas padded with inactive pixels to whole character cells
PaddedPixels ==
    [y \in 0..(Rows * CellH - 1) |->
        [x \in 0..(Cols * CellW - 1) |->
            IF x < width /\ y < height THEN pixels[y][x] ELSE [active |-> FALSE]]]

\* C9: for every renderer and all dimensions w, h >= 0 renderCanvas returns
\* ceil(h/rv) lines of ceil(w/rh) characters each, and every character, a
\* trailing partial block included, has the glyph and style it has on the
\* canvas padded with inactive pixels to the next multiple of the resolution.
C9_PartialBlocks ==
    Rendered =>
        /\ Len(lines) = Rows
        /\ \A cy \in 0..(Rows - 1) : Len(Chars(lines[cy + 1])) = Cols
        /\ lines = renderCanvas(renderer, PaddedPixels, Cols * CellW, Rows * CellH)

\* a 3x9 Block canvas with a pixel in its last column and last row was
\* rendered as 2 lines of 2 characters, the trailing block not a space
C9_Witness ==
    /\ Rendered /\ renderer = "block" /\ width = 3 /\ height = 9
    /\ ActiveAt(2, 8)
    /\ Len(lines) = 2 /\ Len(Chars(lines[2])) = 2
    /\ Out(1, 1).char # 32

\* C10: the colour of a rendered cell is the colour with the highest count
\* among the cell's active coloured pixels, the first one met scanning rows
\* top to bottom and each row left to right winning a tie, and none when the
\* cell has no active coloured pixel; inactive pixels do not count.
C10_DominantColor ==
    Rendered =>
        /\ Len(lines) = Rows
        /\ \A cy \in 0..(Rows - 1) :
              LET chars == Chars(lines[cy + 1])
              IN  /\ Len(chars) = Cols
                  /\ \A cx \in 0..(Cols - 1) :
                        IF renderer = "block" /\ Inverted(cx, cy)
                        THEN chars[cx + 1].backgroundColor = Dominant(cx, cy)
                        ELSE chars[cx + 1].color = Dominant(cx, cy)

\* a Braille cell with an inactive red pixel at (0,0), an active blue pixel at
\* (1,0) and an active red pixel at (0,1) was rendered blue
C10_Witness ==
    /\ Rendered /\ renderer = "braille" /\ width = 2 /\ height = 2
    /\ pixels[0][0] = [active |-> FALSE, color |-> "red"]
    /\ pixels[0][1] = [active |-> TRUE, color |-> "blue"]
    /\ pixels[1][0] = [active |-> TRUE, color |-> "red"]
    /\ Out(0, 0).color = "blue"

\* ------------------------------------------------------------------------
\* Reading the drawing calls (used by the properties)
\* ------------------------------------------------------------------------

\* the positions of the canvas
Positions == { <<x, y>> \in (0..(width - 1)) \X (0..(height - 1)) : TRUE }

\* a new canvas of the declared size as its reader sees it
Blank == [y \in 0..(height - 1) |-> [x \in 0..(width - 1) |-> [active |-> FALSE]]]

\* the last call was op and has returned
Returned(op) == pc \in {"marked", "drawn"} /\ call.op = op

Sign(a) == IF a > 0 THEN 1 ELSE IF a < 0 THEN -1 ELSE 0

\* what a pixel object p reads as after the fields of patch were written to it
Patched(p, patch) ==
    [active |-> IF "active" \in DOMAIN patch THEN patch.active ELSE p.active]
    @@ (IF "color" \in DOMAIN patch THEN [color |-> patch.color]
        ELSE IF "color" \in DOMAIN p THEN [color |-> p.color]
        ELSE <<>>)

\* the canvas is as before the call except that the positions in S got patch
OnlyPatched(S, patch) ==
    /\ DOMAIN pixels = DOMAIN before
    /\ \A y \in DOMAIN before :
          /\ DOMAIN pixels[y] = DOMAIN before[y]
          /\ \A x \in DOMAIN before[y] :
                pixels[y][x] = IF <<x, y>> \in S THEN Patched(before[y][x], patch)
                               ELSE before[y][x]

\* C11: drawLine is symmetric: a line drawn from A to B on a new canvas leaves
\* the canvas exactly as the line drawn from B to A on another new canvas of
\* the same size does, for every pair of integer end points.
C11_LineSymmetric ==
    (Returned("drawLine") /\ before = Blank) =>
        pixels = ReadCanvas(drawLine(createCanvas(width, height),
                                     call.x1, call.y1, call.x0, call.y0, call.pixel))

\* drawLine (0,0) -> (2,1) has set (1,0), which drawLine (2,1) -> (0,0) does
\* not set
C11_Witness ==
    /\ Returned("drawLine") /\ before = Blank /\ width = 3 /\ height = 2
    /\ call.x0 = 0 /\ call.y0 = 0 /\ call.x1 = 2 /\ call.y1 = 1
    /\ pixels[0][1].active
    /\ ~ReadCanvas(drawLine(createCanvas(3, 2), 2, 1, 0, 0, call.pixel))[0][1].active

\* C12: a horizontal, vertical or exactly diagonal drawLine between integer end
\* points on a new canvas sets the pixels (x0 + i*sx, y0 + i*sy), i in
\* 0..max(|dx|, |dy|), with sx and sy the signs of x1 - x0 and y1 - y0, and
\* leaves every other pixel of the canvas as it was.
C12_StraightLines ==
    (Returned("drawLine") /\ before = Blank) =>
        LET dx == call.x1 - call.x0
            dy == call.y1 - call.y0
            n == Max(Abs(dx), Abs(dy))
        IN  (dx = 0 \/ dy = 0 \/ Abs(dx) = Abs(dy)) =>
                OnlyPatched({ <<call.x0 + i * Sign(dx), call.y0 + i * Sign(dy)>> : i \in 0..n },
                            call.pixel)

\* the diagonal (0,0) -> (4,4) on a 5x5 canvas has been drawn
C12_Witness ==
    /\ Returned("drawLine") /\ before = Blank /\ width = 5 /\ height = 5
    /\ call.x0 = 0 /\ call.y0 = 0 /\ call.x1 = 4 /\ call.y1 = 4
    /\ \A i \in 0..4 : pixels[i][i].active
    /\ Cardinality({ p \in Positions : pixels[p[2]][p[1]].active }) = 5

\* C13: setPixel with x or y outside the canvas (negative, or at or beyond
\* the width or height) returns and leaves every pixel of the canvas as it
\* was.
C13_OutOfBoundsIgnored ==
    (call.op = "setPixel" /\ <<call.x, call.y>> \notin Positions) =>
        (Returned("setPixel") /\ pixels = before)

\* setPixel one column beyond the right edge of a canvas that holds a set pixel
C13_Witness ==
    /\ Returned("setPixel") /\ width = 2 /\ height = 2
    /\ call.x = 2 /\ call.y = 0 /\ call.pixel = [active |-> TRUE]
    /\ before[0][1].active

\* C14: setPixel with (x, y) on the canvas writes exactly the fields of the
\* patch to pixel (x, y) and keeps its other fields ({active: false} clears a
\* set pixel, a colour alone keeps the active flag); every other pixel stays
\* as it was.
C14_PatchMerged ==
    (Returned("setPixel") /\ <<call.x, call.y>> \in Positions) =>
        /\ OnlyPatched({<<call.x, call.y>>}, call.pixel)
        /\ \A f \in DOMAIN call.pixel : pixels[call.y][call.x][f] = call.pixel[f]
        /\ \A f \in DOMAIN before[call.y][call.x] \ DOMAIN call.pixel :
              pixels[call.y][call.x][f] = before[call.y][call.x][f]
        /\ DOMAIN pixels[call.y][call.x] =
              DOMAIN before[call.y][call.x] \cup DOMAIN call.pixel

\* a colour alone was written to a set pixel and the pixel is still set
C14_Witness ==
    /\ Returned("setPixel") /\ <<call.x, call.y>> \in Positions
    /\ before[call.y][call.x] = [active |-> TRUE]
    /\ call.pixel = [color |-> "red"]
    /\ pixels[call.y][call.x] = [active |-> TRUE, color |-> "red"]

\* the pixels x <= px < x + w, y <= py < y + h of the last drawRect
RectSpan ==
    { <<px, py>> \in (call.x..(call.x + call.width - 1))
                      \X (call.y..(call.y + call.height - 1)) : TRUE }

\* those on the top row, the bottom row, the left or the right column
RectBorder ==
    { p \in RectSpan : \/ p[2] = call.y
                        \/ p[2] = call.y + call.height - 1
                        \/ p[1] = call.x
                        \/ p[1] = call.x + call.width - 1 }

\* C15: drawRect(x, y, w, h) sets, when filled, every pixel with
\* x <= px < x + w and y <= py < y + h and, when not filled, exactly the
\* pixels of the top row y, the bottom row y + h - 1, the left column x and
\* the right column x + w - 1 of that rectangle; no other pixel changes.
C15_RectDrawn ==
    Returned("drawRect") =>
        OnlyPatched(IF call.filled THEN RectSpan ELSE RectBorder, call.pixel)

\* the unfilled rectangle with corners (-1,0) and (1,1) on a new 2x2 canvas:
\* (0,0) lies on its top row and has not been set
C15_Witness ==
    /\ Returned("drawRect") /\ before = Blank /\ width = 2 /\ height = 2
    /\ call.x = -1 /\ call.y = 0 /\ call.width = 3 /\ call.height = 2
    /\ ~call.filled
    /\ pixels[1][0].active /\ pixels[0][1].active /\ pixels[1][1].active
    /\ ~pixels[0][0].active

\* the filled half of C15 alone
C15_FilledRect ==
    (Returned("drawRect") /\ call.filled) => OnlyPatched(RectSpan, call.pixel)

\* C16: after createCanvas(w, h) and any setPixel, drawLine, drawCircle and
\* drawRect calls with integer arguments, on the canvas or outside it, the
\* canvas has exactly h rows of exactly w pixels each (none for a negative w
\* or h), and every call has returned.
C16_CanvasShape ==
    /\ pc \in {"created", "marked", "drawn"}
    /\ DOMAIN canvas.cells = 0..(height - 1)
    /\ \A y \in DOMAIN canvas.cells :
          /\ DOMAIN canvas.cells[y] = 0..(width - 1)
          /\ \A x \in DOMAIN canvas.cells[y] : canvas.cells[y][x] \in DOMAIN canvas.objects
    /\ DOMAIN pixels = 0..(height - 1)
    /\ \A y \in DOMAIN pixels : DOMAIN pixels[y] = 0..(width - 1)

\* a filled circle of radius 2 around a centre outside a 2x2 canvas, drawn
\* after a setPixel, has set pixels of the canvas
C16_Witness ==
    /\ pc = "drawn" /\ call.op = "drawCircle" /\ width = 2 /\ height = 2
    /\ call.centerX = -1 /\ call.centerY = 2 /\ call.radius = 2 /\ call.filled
    /\ pixels # before

\* C17: createCanvas(w, h) with w, h >= 0 gives h rows of w pixels, every one
\* inactive and without a colour, and no two positions hold the same pixel
\* object, so that setting one pixel of the new canvas changes no other; with
\* a negative w or h it returns a canvas without pixels.
C17_CreateCanvas ==
    /\ pc = "created" =>
          /\ call.op = "createCanvas"
          /\ pixels = Blank
          /\ \A p, q \in Positions :
                p # q => canvas.cells[p[2]][p[1]] # canvas.cells[q[2]][q[1]]
          /\ (width < 0 \/ height < 0) =>
                \A y \in DOMAIN pixels : DOMAIN pixels[y] = {}
    /\ (pc = "marked" /\ <<call.x, call.y>> \in Positions) =>
          /\ before = Blank
          /\ OnlyPatched({<<call.x, call.y>>}, call.pixel)

\* one pixel of a new 2x2 canvas was set and the three others are inactive
C17_Witness ==
    /\ pc = "marked" /\ width = 2 /\ height = 2
    /\ call.x = 0 /\ call.y = 0 /\ call.pixel = [active |-> TRUE]
    /\ pixels[0][0].active
    /\ ~pixels[0][1].active /\ ~pixels[1][0].active /\ ~pixels[1][1].active

\* C18: calculateCharDimensions(w, h) of a renderer of resolution (rh, rv),
\* which is (2,4) for Braille, (2,8) for Block and (1,3) for ASCII, returns
\* cols = ceil(w / rh) and rows = ceil(h / rv) for all integers w, h >= 0, and
\* so (0, 0) for (0, 0): cols is the least integer with cols * rh >= w, rows
\* the least with rows * rv >= h.
C18_CharDimensions ==
    call.op = "calculateCharDimensions" =>
        LET rh == CASE renderer = "braille" -> 2 [] renderer = "block" -> 2
                    [] renderer = "ascii" -> 1
            rv == CASE renderer = "braille" -> 4 [] renderer = "block" -> 8
                    [] renderer = "ascii" -> 3
            cols == call.dims.cols
            rows == call.dims.rows
        IN  /\ DOMAIN call.dims = {"cols", "rows"}
            /\ cols * rh >= call.pixelWidth /\ (cols - 1) * rh < call.pixelWidth
            /\ rows * rv >= call.pixelHeight /\ (rows - 1) * rv < call.pixelHeight
            /\ (call.pixelWidth = 0 => cols = 0)
            /\ (call.pixelHeight = 0 => rows = 0)

\* 7 x 15 pixels take 4 x 2 Block characters
C18_Witness ==
    /\ pc = "measured" /\ renderer = "block"
    /\ call.pixelWidth = 7 /\ call.pixelHeight = 15
    /\ call.dims = [cols |-> 4, rows |-> 2]

EmptyGlyph == IF renderer = "braille" THEN 10240 ELSE 32

\* C20: for every renderer a canvas of height 0 renders to zero lines, and a
\* canvas in which no pixel is active renders to lines whose runs hold only
\* the empty glyph (U+2800 for Braille, the space for Block and ASCII) and
\* carry neither a colour nor a background colour.
C20_DegenerateInputs ==
    pc = "rendered" =>
        /\ height = 0 => DOMAIN lines = {}
        /\ (\A p \in Positions : ~pixels[p[2]][p[1]].active) =>
              \A i \in DOMAIN lines : \A j \in DOMAIN lines[i] :
                  /\ DOMAIN lines[i][j] = {"text"}
                  /\ \A k \in DOMAIN lines[i][j].text : lines[i][j].text[k] = EmptyGlyph

\* a 3x9 canvas of inactive red pixels rendered by the Block renderer to two
\* lines of two spaces
C20_Witness ==
    /\ pc = "rendered" /\ renderer = "block" /\ width = 3 /\ height = 9
    /\ \A p \in Positions : pixels[p[2]][p[1]] = [active |-> FALSE, color |-> "red"]
    /\ Len(lines) = 2
    /\ \A i \in 1..2 : lines[i] = << [text |-> <<32, 32>>] >>

\* the elements of a sequence
Range0(seq) == { seq[i] : i \in DOMAIN seq }

\* C21: for all integer centres (cx, cy) and radii r >= 0, every point (x, y)
\* returned by midpointCircle(cx, cy, r) has its reflection through the
\* centre, (2cx - x, 2cy - y), among the returned points.
C21_CircleSymmetric ==
    call.op = "midpointCircle" =>
        \A p \in Range0(call.points) :
            <<2 * call.centerX - p[1], 2 * call.centerY - p[2]>> \in Range0(call.points)

\* the circle of radius 6 around (1, 1) was computed; it holds (7, 1) and
\* (-5, 1)
C21_Witness ==
    /\ pc = "computed" /\ call.centerX = 1 /\ call.centerY = 1 /\ call.radius = 6
    /\ <<7, 1>> \in Range0(call.points) /\ <<-5, 1>> \in Range0(call.points)
    /\ Cardinality(Range0(call.points)) > 8

\* C22: a circle of radius 0 collapses to its centre: drawCircle with radius
\* 0, filled or not, sets the centre pixel and no other, and
\* midpointCircle(cx, cy, 0) returns exactly 8 points, all equal to (cx, cy).
C22_ZeroRadius ==
    /\ (call.op = "drawCircle" /\ call.radius = 0) =>
          /\ pc = "drawn"
          /\ OnlyPatched({<<call.centerX, call.centerY>>}, call.pixel)
    /\ (call.op = "midpointCircle" /\ call.radius = 0) =>
          /\ Len(call.points) = 8
          /\ \A i \in 1..8 : call.points[i] = <<call.centerX, call.centerY>>

\* a filled circle of radius 0 at (1, 1) of a new 3x3 canvas has set one pixel
C22_Witness ==
    /\ pc = "drawn" /\ call.op = "drawCircle" /\ call.radius = 0 /\ call.filled
    /\ width = 3 /\ height = 3 /\ call.centerX = 1 /\ call.centerY = 1
    /\ pixels[1][1].active
    /\ Cardinality({ p \in Positions : pixels[p[2]][p[1]].active }) = 1

\* C23: setPixel is idempotent: for every canvas, every (x, y) on the canvas or
\* outside it and every patch, setPixel(canvas, x, y, patch) applied a second
\* time leaves the canvas as the first application left it.
C23_SetPixelIdempotent ==
    Returned("setPixel") =>
        LET again == setPixel(canvas, call.x, call.y, call.pixel)
        IN  /\ again = canvas
            /\ ReadCanvas(again) = pixels

\* setPixel has cleared a set pixel of a 2x2 canvas; a second application
\* leaves it cleared
C23_Witness ==
    /\ Returned("setPixel") /\ width = 2 /\ height = 2
    /\ <<call.x, call.y>> \in Positions /\ call.pixel = [active |-> FALSE]
    /\ before[call.y][call.x].active /\ ~pixels[call.y][call.x].active
    /\ ~ReadCanvas(setPixel(canvas, call.x, call.y, call.pixel))[call.y][call.x].active

\* C25: drawLine returns for all integer end points, on the canvas or outside
\* it; both end points are among the positions it passes to setPixel, so an
\* end point that lies on the canvas is set.
C25_LineEnds ==
    call.op = "drawLine" =>
        /\ pc = "drawn"
        /\ call.visited[1] = <<call.x0, call.y0>>
        /\ call.visited[Len(call.visited)] = <<call.x1, call.y1>>
        /\ \A p \in {<<call.x0, call.y0>>, <<call.x1, call.y1>>} \cap Positions :
              pixels[p[2]][p[1]] = Patched(before[p[2]][p[1]], call.pixel)

\* the line from (4, 3) to (-1, 0) on a 5x5 canvas has returned; it has set
\* (4, 3), and (-1, 0) lies outside
C25_Witness ==
    /\ pc = "drawn" /\ call.op = "drawLine" /\ width = 5 /\ height = 5
    /\ call.x0 = 4 /\ call.y0 = 3 /\ call.x1 = -1 /\ call.y1 = 0
    /\ pixels[3][4].active
    /\ call.visited[Len(call.visited)] = <<-1, 0>>

\* C30: drawLine between integer end points passes exactly max(|dx|, |dy|) + 1
\* positions to setPixel, all distinct; consecutive positions differ by at
\* most 1 in x and at most 1 in y; every position lies in the bounding box of
\* the two end points.
C30_LineConnected ==
    call.op = "drawLine" =>
        LET v == call.visited
            dx == Abs(call.x1 - call.x0)
            dy == Abs(call.y1 - call.y0)
        IN  /\ Len(v) = Max(dx, dy) + 1
            /\ Cardinality(Range0(v)) = Len(v)
            /\ \A i \in 1..(Len(v) - 1) :
                  /\ Abs(v[i + 1][1] - v[i][1]) <= 1
                  /\ Abs(v[i + 1][2] - v[i][2]) <= 1
            /\ \A i \in 1..Len(v) :
                  /\ Min(call.x0, call.x1) <= v[i][1] /\ v[i][1] <= Max(call.x0, call.x1)
                  /\ Min(call.y0, call.y1) <= v[i][2] /\ v[i][2] <= Max(call.y0, call.y1)

\* the line from (0, 0) to (5, 2) has passed 6 positions
C30_Witness ==
    /\ pc = "drawn" /\ call.op = "drawLine"
    /\ call.x0 = 0 /\ call.y0 = 0 /\ call.x1 = 5 /\ call.y1 = 2
    /\ Len(call.visited) = 6
    /\ <<3, 1>> \in Range0(call.visited)

\* the fill level of the glyphs ' ', U+2582 .. U+2588
FillLevel(char) == IF char = 32 THEN 0 ELSE char - 9600

HasFillLevel(char) == char = 32 \/ char \in 9602..9608

\* the sum of the two column heights of cell (cx, 0)
HeightSum(cx) == ColumnCount(cx, 0, 0) + ColumnCount(cx, 0, 1)

CellActive(cx, cy) ==
    \E k \in 0..(CellW * CellH - 1) : ActiveAt(ScanX(cx, k), ScanY(cy, k))

\* the character of cell (cx, cy) shows that the cell has content
VisibleMark(cx, cy) ==
    CASE renderer = "braille" -> Out(cx, cy).char # 10240
      [] renderer = "ascii" -> Out(cx, cy).char # 32
      [] renderer = "block" ->
            IF Inverted(cx, cy) THEN Out(cx, cy).char # 9608
            ELSE Out(cx, cy).char # 32

\* C28: every cell that holds at least one active pixel is rendered with a
\* visible mark: Braille never gives U+2800 for it, ASCII never a space, and
\* Block never a space in standard mode nor the full block U+2588 in
\* inverted mode.
C28_ActiveCellsVisible ==
    pc = "rendered" =>
        \A cx \in 0..(Cols - 1), cy \in 0..(Rows - 1) :
            CellActive(cx, cy) => VisibleMark(cx, cy)

\* a Block cell whose only active pixel is the top pixel of its left column
\* is rendered inverted as the full block
C28_Witness ==
    /\ pc = "rendered" /\ renderer = "block" /\ width = 2 /\ height = 8
    /\ \A p \in Positions : pixels[p[2]][p[1]].active <=> p = <<0, 0>>
    /\ Inverted(0, 0)
    /\ Out(0, 0).char = 9608

\* C29: renderCanvas(pixels, width, height) depends only on the pixels with
\* 0 <= x < width and 0 <= y < height: for every renderer two pixel arrays
\* that agree on that rectangle and differ outside it render to the same
\* lines.
C29_DependsOnRectangle ==
    call.op = "renderBoth" =>
        ((\A x \in 0..(width - 1), y \in 0..(height - 1) :
              HasPixel(call.other, y, x) /\ call.other[y][x] = pixels[y][x])
            => lines = call.otherLines)

\* a 2x2 array with an active pixel in its second column and in its second
\* row, declared as 1x1, is rendered by Braille like its 1x1 part
C29_Witness ==
    /\ pc = "rendered" /\ call.op = "renderBoth" /\ renderer = "braille"
    /\ width = 1 /\ height = 1
    /\ DOMAIN pixels = 0..1 /\ DOMAIN pixels[0] = 0..1
    /\ ~pixels[0][0].active /\ pixels[0][1].active /\ pixels[1][0].active
    /\ call.other = Crop(pixels, 1, 1)
    /\ lines = call.otherLines

\* the requirements of renderer type t hold for the capabilities caps
Qualifies(t, caps) ==
    CASE t = "braille" ->
            caps.score >= 80 /\ caps.supportsUtf8 /\ caps.supportsUnicode /\ caps.supportsBraille
      [] t = "block" ->
            caps.score >= 30 /\ caps.supportsUtf8 /\ caps.supportsUnicode
            /\ caps.supportsBlockElements
      [] t = "ascii" -> caps.score >= 0

\* C24: for every environment and every preference chain selectBest returns
\* the first renderer type of the chain whose requirements the detected
\* capabilities satisfy, and the ASCII renderer when no entry qualifies or
\* the chain is empty; the requirements of the returned renderer are
\* satisfied.
C24_SelectBest ==
    call.op = "selectBest" =>
        LET chain == call.preferredChain
            caps == call.capabilities
            ok == { i \in 1..Len(chain) : Qualifies(chain[i], caps) }
        IN  /\ caps = detect(call.envInfo)
            /\ ok # {} => \E i \in ok : /\ \A j \in ok : i <= j
                                         /\ renderer = chain[i]
            /\ ok = {} => renderer = "ascii"
            /\ Qualifies(renderer, caps)

\* in a UTF-8 Braille terminal without colour the score is 70: the chain
\* braille, block, ascii gives the Block renderer
C24_Witness ==
    /\ pc = "selected" /\ call.op = "selectBest"
    /\ call.preferredChain = <<"braille", "block", "ascii">>
    /\ call.capabilities.supportsUtf8 /\ call.capabilities.supportsBraille
    /\ call.capabilities.score = 70
    /\ renderer = "block"

\* the fraction v lies between the fractions a and b
FracBetween(v, a, b) ==
    \/ (~FracLess(v, a) /\ ~FracLess(b, v))
    \/ (~FracLess(v, b) /\ ~FracLess(a, v))

\* every timer that is due has fired
TimersRun == hook.timer = <<>> \/ hook.now < hook.timer[1]

\* C27: after the target of useSmooth has changed and stays the same, the
\* returned value equals the target once duration ms (and the frame then in
\* progress) have elapsed since the change, no animation timer is scheduled
\* from then on, and every value returned in between lies between the value
\* at the change and the target.
C27_SmoothSettles ==
    (hook.mounted /\ pc = "animating") =>
        /\ (hook.now >= SettleTime(hook) /\ TimersRun) =>
              /\ hook.currentValue = hook.targetValue
              /\ hook.timer = <<>>
        /\ \A i \in 1..Len(hook.frames) :
              FracBetween(hook.frames[i], Frac(0, 1), hook.targetValue)

\* with a duration of one frame the first frame gives the target and no
\* timer is left
C27_Witness ==
    /\ hook.mounted /\ pc = "animating"
    /\ hook.duration = FrameInterval
    /\ hook.now >= SettleTime(hook) /\ TimersRun
    /\ hook.targetValue = Frac(3, 1)
    /\ hook.frames = <<Frac(3, 1)>>
    /\ hook.currentValue = hook.targetValue
    /\ hook.timer = <<>>

====
